---- MODULE Spec2Model ----
(***************************************************************************)
(* ds-coverage: the analysis pipeline (scanner, component analyzer,        *)
(* migration analyzer, roadmap builder), the merge of configurations, init *)
(* and run, as state machines.                                             *)
(*                                                                         *)
(* Text is a sequence of one-character strings; "\n" separates lines.      *)
(* A regular expression of a violation rule or flag is a character class   *)
(* (the set of characters it matches, one character per match), or a       *)
(* source that does not compile.                                           *)
(***************************************************************************)
EXTENDS Integers, Sequences, FiniteSets, TLC

VARIABLES
    \* --- scanFileContent on one file (SpecScanFile) ---
    f_pc,          \* "init" | "returned" | "threw"
    f_content,     \* the file's text
    f_config,      \* the configuration (violations, flags)
    f_report,      \* the FileReport returned, or NoReport
    \* --- deduplicateByLine applied repeatedly (SpecDedup) ---
    d_input,       \* the violation list given first
    d_list,        \* the current list
    d_prev,        \* the list before the last application
    d_runs,        \* number of applications so far
    \* --- scan(projectRoot, config) (Spec) ---
    s_pc,          \* "start" | "reading" | "scanning" | "resolved" | "rejected"
    s_root,        \* what scanDir is on disk: "dir" | "missing" | "file"
    s_disk,        \* the files under scanDir: path -> [readable, text]
    s_config,      \* the configuration
    s_filePaths,   \* filePaths, as returned by discoverFiles
    s_reads,       \* the readFile promises: path -> "pending" | "fulfilled" | "rejected"
    s_fileContents,\* the Map fileContents, as its entries in insertion order
    s_fileReports, \* fileReports
    s_error,       \* the error scan rejected with, or NoError
    \* --- analyzeMigration(fileContents, scanDir, config) (SpecMigration) ---
    m_pc,          \* "init" | "returned"
    m_fileContents,\* the Map fileContents, as its entries in insertion order
    m_config,      \* the configuration (scanDir, migration)
    m_report,      \* the MigrationReport returned, Null, or NoReport
    \* --- analyzeComponent(content, relativePath, apiConfig) (SpecComponent) ---
    c_pc,          \* "init" | "returned" | "skipped"
    c_content,     \* the component file's lines
    c_path,        \* relativePath
    c_config,      \* config.componentAnalysis
    c_report,      \* the ComponentApiReport returned, Null, or NoReport
    \* --- detectComponentUsage(content, componentName, importPattern) (SpecDetect) ---
    u_pc,          \* "init" | "returned"
    u_content,     \* the file's lines
    u_name,        \* componentName
    u_pattern,     \* importPattern
    u_usage,       \* the DetectedUsage returned, or NoReport
    \* --- buildRoadmap(fileReports, config) (SpecRoadmap) ---
    p_pc,          \* "init" | "returned"
    p_fileReports, \* fileReports
    p_config,      \* the configuration (violations, flags, roadmap)
    p_roadmap,     \* the Roadmap returned, or NoReport
    \* --- analyzeComponents(fileReports, fileContents, scanDir, config) ---
    a_pc,          \* "init" | "returned"
    a_fileReports, \* fileReports
    a_fileContents,\* fileContents, in insertion order: [fp, content]
    a_config,      \* the configuration (scanDir, componentAnalysis)
    a_result,      \* { summary, components } returned, or NoReport
    \* --- deepMerge(target, source) (SpecMerge) ---
    g_pc,          \* "init" | "returned"
    g_target,      \* target
    g_source,      \* source
    g_result,      \* the object returned, or NoReport
    \* --- init(options) (SpecInit) ---
    i_pc,          \* "init" | "returned" | "threw"
    i_options,     \* options
    i_before,      \* the files of the project when init is called
    i_disk,        \* the files of the project
    i_config,      \* the configuration init resolved
    i_results,     \* the GeneratedFiles returned
    \* --- run(options) (SpecRun) ---
    r_pc,          \* "init" | "returned" | "rejected"
    r_options,     \* options
    r_config,      \* the configuration run resolved
    r_scanned,     \* what scan resolves with, or Null
    r_disk,        \* the output files of the project
    r_result,      \* { report, dashboardHtml } returned, or NoReport
    \* --- buildCategorySummary(files, categoryKey) (SpecCategory) ---
    b_pc,          \* "init" | "returned"
    b_files,       \* files: the FileReports of a scan
    b_key,         \* categoryKey
    b_summary      \* the CategorySummary returned, or NoReport

fileVars  == <<f_pc, f_content, f_config, f_report>>
dedupVars == <<d_input, d_list, d_prev, d_runs>>
scanVars  == <<s_pc, s_root, s_disk, s_config, s_filePaths, s_reads,
               s_fileContents, s_fileReports, s_error>>
migVars   == <<m_pc, m_fileContents, m_config, m_report>>
compVars  == <<c_pc, c_content, c_path, c_config, c_report>>
detectVars == <<u_pc, u_content, u_name, u_pattern, u_usage>>
roadmapVars == <<p_pc, p_fileReports, p_config, p_roadmap>>
componentsVars == <<a_pc, a_fileReports, a_fileContents, a_config, a_result>>
mergeVars == <<g_pc, g_target, g_source, g_result>>
initVars == <<i_pc, i_options, i_before, i_disk, i_config, i_results>>
runVars == <<r_pc, r_options, r_config, r_scanned, r_disk, r_result>>
categoryVars == <<b_pc, b_files, b_key, b_summary>>

\* What the actions of one specification leave alone: the others' variables.
notFileVars == <<dedupVars, scanVars, migVars, compVars, detectVars,
    roadmapVars, componentsVars, mergeVars, initVars, runVars, categoryVars>>
notDedupVars == <<fileVars, scanVars, migVars, compVars, detectVars,
    roadmapVars, componentsVars, mergeVars, initVars, runVars, categoryVars>>
notScanVars == <<fileVars, dedupVars, migVars, compVars, detectVars,
    roadmapVars, componentsVars, mergeVars, initVars, runVars, categoryVars>>
notMigVars == <<fileVars, dedupVars, scanVars, compVars, detectVars,
    roadmapVars, componentsVars, mergeVars, initVars, runVars, categoryVars>>
notCompVars == <<fileVars, dedupVars, scanVars, migVars, detectVars,
    roadmapVars, componentsVars, mergeVars, initVars, runVars, categoryVars>>
notDetectVars == <<fileVars, dedupVars, scanVars, migVars, compVars,
    roadmapVars, componentsVars, mergeVars, initVars, runVars, categoryVars>>
notRoadmapVars == <<fileVars, dedupVars, scanVars, migVars, compVars,
    detectVars, componentsVars, mergeVars, initVars, runVars, categoryVars>>
notComponentsVars == <<fileVars, dedupVars, scanVars, migVars, compVars,
    detectVars, roadmapVars, mergeVars, initVars, runVars, categoryVars>>
notMergeVars == <<fileVars, dedupVars, scanVars, migVars, compVars,
    detectVars, roadmapVars, componentsVars, initVars, runVars, categoryVars>>
notInitVars == <<fileVars, dedupVars, scanVars, migVars, compVars,
    detectVars, roadmapVars, componentsVars, mergeVars, runVars, categoryVars>>
notRunVars == <<fileVars, dedupVars, scanVars, migVars, compVars, detectVars,
    roadmapVars, componentsVars, mergeVars, initVars, categoryVars>>
notCategoryVars == <<fileVars, dedupVars, scanVars, migVars, compVars,
    detectVars, roadmapVars, componentsVars, mergeVars, initVars, runVars>>

-----------------------------------------------------------------------------
(* Bounds *)

MaxContentLen == 4      \* longest file text, in characters (SpecScanFile)
MaxDedupLen == 3        \* longest violation list given to deduplicateByLine
MaxDedupLine == 2       \* largest line number in such a list
NFiles == 2             \* scannable files under scanDir (Spec)
MaxMigLines == 2        \* most lines of a file given to analyzeMigration
MaxCompLines == 3       \* most lines of a file given to analyzeComponent
MaxDetectLines == 3     \* most lines of a file given to detectComponentUsage
MaxRoadmapFiles == 3    \* most FileReports given to buildRoadmap
MaxComponentFiles == 2  \* most files given to analyzeComponents
MaxMergeArray == 1      \* longest array in an object given to deepMerge
MaxRunLines == 1        \* most lines of a file of the project run scans
MaxCategoryFiles == 22  \* most FileReports given to buildCategorySummary

(* Program constants *)

TopFilesMax == 20       \* src/unnamed/part_002:163, slice(0, 20)
ContextMax == 120       \* trimmedLine.slice(0, 120)

-----------------------------------------------------------------------------
(* Strings *)

LF == "\n"
Chars == {"/", "*", " ", "a", "b", "@", LF}
Whitespace == {" ", LF}

StringsUpTo(n) == UNION {[1..k -> Chars] : k \in 0..n}

Min(a, b) == IF a <= b THEN a ELSE b

\* The sum of f[x] over the x of S (an Array.prototype.reduce with +).
RECURSIVE SumOver(_, _)
SumOver(S, f) ==
    IF S = {} THEN 0
    ELSE LET x == CHOOSE y \in S : TRUE IN f[x] + SumOver(S \ {x}, f)

\* String.prototype.split("\n")
RECURSIVE split(_)
split(s) ==
    IF \A i \in 1..Len(s) : s[i] # LF
    THEN <<s>>
    ELSE LET i == CHOOSE k \in 1..Len(s) :
                      s[k] = LF /\ \A j \in 1..(k-1) : s[j] # LF
         IN  <<SubSeq(s, 1, i-1)>> \o split(SubSeq(s, i+1, Len(s)))

\* String.prototype.trim()
RECURSIVE trimStart(_)
trimStart(s) ==
    IF s # <<>> /\ Head(s) \in Whitespace THEN trimStart(Tail(s)) ELSE s

RECURSIVE trimEnd(_)
trimEnd(s) ==
    IF s # <<>> /\ s[Len(s)] \in Whitespace
    THEN trimEnd(SubSeq(s, 1, Len(s)-1)) ELSE s

trim(s) == trimEnd(trimStart(s))

\* String.prototype.startsWith
startsWith(s, p) == Len(s) >= Len(p) /\ SubSeq(s, 1, Len(p)) = p

\* String.prototype.slice(0, n)
slice0(s, n) == SubSeq(s, 1, Min(Len(s), n))

-----------------------------------------------------------------------------
(* Regular expressions of rules and flags *)

\* A pattern source: ok = whether new RegExp(source, "g") compiles;
\* cls = the characters it matches.
Pattern(cls) == [ok |-> TRUE, cls |-> cls]
InvalidPattern == [ok |-> FALSE, cls |-> {}]   \* e.g. "[invalid(regex"

\* The loop  while ((match = pattern.exec(line)) !== null)  from lastIndex = 0:
\* the matches of the line, left to right, as [index (0-based), text].
RECURSIVE execAll(_, _, _)
execAll(line, pattern, lastIndex) ==
    IF lastIndex >= Len(line) THEN <<>>
    ELSE IF line[lastIndex + 1] \in pattern.cls
         THEN <<[index |-> lastIndex, text |-> <<line[lastIndex + 1]>>]>>
              \o execAll(line, pattern, lastIndex + 1)
         ELSE execAll(line, pattern, lastIndex + 1)

-----------------------------------------------------------------------------
(* Scanner: findViolations *)

\* The test of lines 63-71 on the trimmed line.
isCommentLine(line) ==
    LET trimmedLine == trim(line)
    IN  \/ startsWith(trimmedLine, <<"/", "/">>)
        \/ startsWith(trimmedLine, <<"/", "*">>)
        \/ startsWith(trimmedLine, <<"*">>)

\* Whether findViolations skips the line.
skipsLine_alsoForFlags(line, scanComments) == isCommentLine(line)
skipsLine(line, scanComments) == ~scanComments /\ isCommentLine(line)

\* The violations pushed for one line (lineIdx is 0-based).
lineViolations(line, lineIdx, pattern, scanComments) ==
    IF skipsLine(line, scanComments) THEN <<>>
    ELSE LET ms == execAll(line, pattern, 0)
         IN  [k \in 1..Len(ms) |->
                 [line    |-> lineIdx + 1,
                  column  |-> ms[k].index + 1,
                  match   |-> ms[k].text,
                  context |-> slice0(trim(line), ContextMax)]]

RECURSIVE findViolationsFrom(_, _, _, _)
findViolationsFrom(lines, lineIdx, pattern, scanComments) ==
    IF lineIdx >= Len(lines) THEN <<>>
    ELSE lineViolations(lines[lineIdx + 1], lineIdx, pattern, scanComments)
         \o findViolationsFrom(lines, lineIdx + 1, pattern, scanComments)

\* findViolations for a pattern that compiles (new RegExp throws otherwise).
findViolations(content, pattern, scanComments) ==
    findViolationsFrom(split(content), 0, pattern, scanComments)

-----------------------------------------------------------------------------
(* Scanner: deduplicateByLine *)

\* existing.match = `${existing.match}, ${v.match}`
joinMatch_reversed(existing, match) == match \o <<",", " ">> \o existing
joinMatch(existing, match) == existing \o <<",", " ">> \o match

\* The Map byLine, as the sequence of its values in insertion order.
RECURSIVE byLineFold(_, _)
byLineFold(violations, byLine) ==
    IF violations = <<>> THEN byLine
    ELSE LET v == Head(violations)
         IN  IF \E i \in 1..Len(byLine) : byLine[i].line = v.line
             THEN byLineFold(Tail(violations),
                      [i \in 1..Len(byLine) |->
                          IF byLine[i].line = v.line
                          THEN [byLine[i] EXCEPT !.match = joinMatch(@, v.match)]
                          ELSE byLine[i]])
             ELSE byLineFold(Tail(violations), Append(byLine, v))

\* Array.prototype.sort((a, b) => a.line - b.line): stable, ascending by line.
RECURSIVE insertByLine(_, _)
insertByLine(sorted, v) ==
    IF sorted = <<>> THEN <<v>>
    ELSE IF Head(sorted).line <= v.line
         THEN <<Head(sorted)>> \o insertByLine(Tail(sorted), v)
         ELSE <<v>> \o sorted

RECURSIVE sortByLineAcc(_, _)
sortByLineAcc(vs, acc) ==
    IF vs = <<>> THEN acc
    ELSE sortByLineAcc(Tail(vs), insertByLine(acc, Head(vs)))

reverseSeq(s) == [i \in 1..Len(s) |-> s[Len(s) + 1 - i]]

sortByLine_reversed(vs) == reverseSeq(vs)
sortByLine(vs) == sortByLineAcc(vs, <<>>)

deduplicateByLine(violations) == sortByLine(byLineFold(violations, <<>>))

-----------------------------------------------------------------------------
(* Scanner: scanFileContent *)

\* config.violations is a sequence of rules in Object.entries order, with
\* distinct keys; config.flags holds the three flag patterns.
RuleKeysOf(config) == {config.violations[i].key : i \in 1..Len(config.violations)}
RuleOf(config, key) ==
    config.violations[CHOOSE i \in 1..Len(config.violations) :
                          config.violations[i].key = key]
EnabledKeys(config) == {k \in RuleKeysOf(config) : RuleOf(config, k).enabled}

\* Lines 123-128 for one enabled rule: the list stored under the key and the
\* number added to totalViolations.
scanRule_countsBeforeDedup(content, rule) ==
    LET found == findViolations(content, rule.pattern, FALSE)
    IN  [list    |-> IF rule.deduplicateByLine
                        THEN deduplicateByLine(found) ELSE found,
         counted |-> Len(found)]
scanRule(content, rule) ==
    LET found == findViolations(content, rule.pattern, FALSE)
        violations == IF rule.deduplicateByLine
                      THEN deduplicateByLine(found) ELSE found
    IN  [list |-> violations, counted |-> Len(violations)]

\* let totalViolations = 0; for (...) totalViolations += violations.length
RECURSIVE totalOver(_, _, _)
totalOver(content, rules, i) ==
    IF i > Len(rules) THEN 0
    ELSE (IF rules[i].enabled THEN scanRule(content, rules[i]).counted ELSE 0)
         + totalOver(content, rules, i + 1)

\* new RegExp(patternStr, "g") throws a SyntaxError for a source that does
\* not compile: for an enabled rule (line 123) or a flag (lines 132-134).
scanThrows(config) ==
    \/ \E i \in 1..Len(config.violations) :
          config.violations[i].enabled /\ ~config.violations[i].pattern.ok
    \/ ~config.flags.migrateSimple.ok
    \/ ~config.flags.migrateComplex.ok
    \/ ~config.flags.todo.ok

\* The FileReport returned when nothing throws.
scanFileContent(content, relativePath, config) ==
    LET migrateSimple  == findViolations(content, config.flags.migrateSimple, TRUE)
        migrateComplex == findViolations(content, config.flags.migrateComplex, TRUE)
        todo           == findViolations(content, config.flags.todo, TRUE)
    IN  [path            |-> relativePath,
         violations      |-> [k \in EnabledKeys(config) |->
                                 scanRule(content, RuleOf(config, k)).list],
         flags           |-> [migrateSimple  |-> migrateSimple,
                              migrateComplex |-> migrateComplex,
                              todo           |-> todo],
         totalViolations |-> totalOver(content, config.violations, 1),
         totalFlags      |-> Len(migrateSimple) + Len(migrateComplex) + Len(todo)]

NoReport == [path |-> "none"]

-----------------------------------------------------------------------------
(* SpecScanFile: scanFileContent applied to one file under one configuration *)

FlagNames == {"migrateSimple", "migrateComplex", "todo"}

\* The flag patterns of the configurations explored.
SampleFlags ==
    [migrateSimple  |-> Pattern({"@"}),
     migrateComplex |-> Pattern({"b"}),
     todo           |-> Pattern({"a", "@"})]

\* Configurations explored: a "colors" rule with or without deduplication,
\* enabled or not, and a "typography" rule that is deduplicated, disabled with
\* a source that does not compile, or enabled with such a source.
ColorsRules ==
    {[key |-> "colors", enabled |-> e, pattern |-> Pattern({"a", "b"}),
      deduplicateByLine |-> d] : e \in BOOLEAN, d \in BOOLEAN}
TypographyRules ==
    {[key |-> "typography", enabled |-> TRUE, pattern |-> Pattern({"b"}),
      deduplicateByLine |-> TRUE],
     [key |-> "typography", enabled |-> FALSE, pattern |-> InvalidPattern,
      deduplicateByLine |-> FALSE],
     [key |-> "typography", enabled |-> TRUE, pattern |-> InvalidPattern,
      deduplicateByLine |-> FALSE]}
ScanConfigs ==
    {[scanDir    |-> "src",
      extensions |-> {".ts", ".tsx"},
      exclude    |-> {"node_modules"},
      violations |-> <<c, t>>,
      flags      |-> SampleFlags] :
        c \in ColorsRules, t \in TypographyRules}

FileIdle ==
    /\ f_pc = "idle" /\ f_content = <<>> /\ f_config = <<>> /\ f_report = NoReport

ScanFileInit ==
    /\ f_pc = "init"
    /\ f_content \in StringsUpTo(MaxContentLen)
    /\ f_config \in ScanConfigs
    /\ f_report = NoReport

\* scanFileContent returns its FileReport.
ScanFileReturns ==
    /\ f_pc = "init"
    /\ ~scanThrows(f_config)
    /\ f_report' = scanFileContent(f_content, "f", f_config)
    /\ f_pc' = "returned"
    /\ UNCHANGED <<f_content, f_config>>
    /\ UNCHANGED notFileVars

\* new RegExp throws inside findViolations: no FileReport.
ScanFileThrows ==
    /\ f_pc = "init"
    /\ scanThrows(f_config)
    /\ f_pc' = "threw"
    /\ UNCHANGED <<f_content, f_config, f_report>>
    /\ UNCHANGED notFileVars

-----------------------------------------------------------------------------
(* SpecDedup: deduplicateByLine applied again and again to a violation list *)

DedupRuns == 2          \* applications of deduplicateByLine explored

DedupViolations ==
    [line : 1..MaxDedupLine, column : 1..2, match : {<<"a">>, <<"b">>},
     context : {<<"a", "b">>}]
DedupLists == UNION {[1..k -> DedupViolations] : k \in 0..MaxDedupLen}

DedupIdle ==
    /\ d_input = <<>> /\ d_list = <<>> /\ d_prev = <<>> /\ d_runs = -1

DedupInit ==
    /\ d_input \in DedupLists
    /\ d_list = d_input
    /\ d_prev = d_input
    /\ d_runs = 0

ApplyDedup ==
    /\ d_runs >= 0
    /\ d_runs < DedupRuns
    /\ d_prev' = d_list
    /\ d_list' = deduplicateByLine(d_list)
    /\ d_runs' = d_runs + 1
    /\ UNCHANGED d_input
    /\ UNCHANGED notDedupVars

-----------------------------------------------------------------------------
(* Scanner: discoverFiles and scan (Spec) *)

\* Paths. A path under scanDir is [dir, name, ext]: its directory segments,
\* the file's base name and its extension. join(scanDir, p) is the absolute
\* path and relative(scanDir, fp) the path under scanDir again.
join(scanDir, p) == [root |-> scanDir, rel |-> p]
relative(scanDir, fp) == fp.rel

\* relativePath.includes(exc), for an exclusion that names a whole segment.
pathIncludes(p, exc) == \E i \in 1..Len(p.dir) : p.dir[i] = exc

\* The files under scanDir in readdir order: NFiles source files, a file with
\* another extension, and a source file in an excluded directory.
TreeFiles ==
    [i \in 1..NFiles |-> [dir |-> <<"components">>, name |-> i, ext |-> ".tsx"]]
    \o <<[dir |-> <<>>, name |-> 0, ext |-> ".md"],
         [dir |-> <<"node_modules">>, name |-> 0, ext |-> ".tsx"]>>

\* Texts of the files explored in Spec.
SampleTexts ==
    {<<"a", "b", LF, "a">>,
     <<"/", "/", "a", "@">>,
     <<" ">>}
DiskEntries ==
    {[readable |-> TRUE, text |-> t] : t \in SampleTexts}
    \cup {[readable |-> FALSE, text |-> <<>>]}

\* Errors, with the message as its sequence of words.
NoError == [name |-> "none", message |-> <<>>]
\* readdir of a path that does not exist / that is not a directory
ErrENOENT ==
    [name |-> "Error",
     message |-> <<"ENOENT:", "no", "such", "file", "or", "directory,", "scandir">>]
ErrENOTDIR ==
    [name |-> "Error",
     message |-> <<"ENOTDIR:", "not", "a", "directory,", "scandir">>]
\* readFile of a file that cannot be read
ErrReadFile ==
    [name |-> "Error",
     message |-> <<"EACCES:", "permission", "denied,", "open">>]
\* new RegExp of a source that does not compile
ErrRegExp ==
    [name |-> "SyntaxError",
     message |-> <<"Invalid", "regular", "expression">>]

\* String.prototype.includes, on words
includesWords(message, words) ==
    \E i \in 0..(Len(message) - Len(words)) :
        SubSeq(message, i + 1, i + Len(words)) = words

\* discoverFiles: the files whose relative path includes no exclusion and
\* whose extension is listed, in walk order.
discoverFiles(scanDir, extensions, exclude) ==
    LET kept(p) == /\ ~\E exc \in exclude : pathIncludes(p, exc)
                   /\ p.ext \in extensions
        found == SelectSeq(TreeFiles, kept)
    IN  [k \in 1..Len(found) |-> join(scanDir, found[k])]

\* What readdir(scanDir) throws when scanDir is no directory.
SeqToSet(q) == {q[i] : i \in 1..Len(q)}

ScanIdle ==
    /\ s_pc = "idle" /\ s_root = "dir" /\ s_disk = <<>> /\ s_config = <<>>
    /\ s_filePaths = <<>> /\ s_reads = <<>> /\ s_fileContents = <<>>
    /\ s_fileReports = <<>> /\ s_error = NoError

ScanInit ==
    /\ s_pc = "start"
    /\ s_config \in ScanConfigs
    /\ \/ /\ s_root = "dir"
          /\ s_disk \in [SeqToSet(TreeFiles) -> DiskEntries]
       \/ /\ s_root \in {"missing", "file"}
          /\ s_disk = <<>>
    /\ s_filePaths = <<>>
    /\ s_reads = <<>>
    /\ s_fileContents = <<>>
    /\ s_fileReports = <<>>
    /\ s_error = NoError

\* Line 186 when scanDir is a directory, then lines 190-195 start one
\* readFile per path (the callbacks of filePaths.map).
DiscoverFiles ==
    /\ s_pc = "start"
    /\ s_root = "dir"
    /\ s_filePaths' = discoverFiles(s_config.scanDir, s_config.extensions,
                                    s_config.exclude)
    /\ s_reads' = [fp \in SeqToSet(s_filePaths') |-> "pending"]
    /\ s_pc' = "reading"
    /\ UNCHANGED <<s_root, s_disk, s_config, s_fileContents, s_fileReports, s_error>>
    /\ UNCHANGED notScanVars

\* Line 186 when readdir(scanDir) throws: nothing in scan catches it.
DiscoverFails ==
    /\ s_pc = "start"
    /\ s_root # "dir"
    /\ s_pc' = "rejected"
    /\ s_error' = IF s_root = "missing" THEN ErrENOENT ELSE ErrENOTDIR
    /\ UNCHANGED <<s_root, s_disk, s_config, s_filePaths, s_reads,
                   s_fileContents, s_fileReports>>
    /\ UNCHANGED notScanVars

\* Promise.all: the state of scan once one of the promises has rejected.
afterReadRejected_ignored(pc) == pc
afterReadRejected(pc) == IF pc = "reading" THEN "rejected" ELSE pc

\* Lines 192-193: one readFile completes and its text is put in the Map.
ReadFileCompletes ==
    /\ \E fp \in DOMAIN s_reads :
           /\ s_reads[fp] = "pending"
           /\ s_disk[relative(s_config.scanDir, fp)].readable
           /\ s_reads' = [s_reads EXCEPT ![fp] = "fulfilled"]
           /\ s_fileContents' =
                  Append(s_fileContents,
                         [fp |-> fp,
                          content |-> s_disk[relative(s_config.scanDir, fp)].text])
           /\ UNCHANGED <<s_pc, s_root, s_disk, s_config, s_filePaths,
                          s_fileReports, s_error>>
    /\ UNCHANGED notScanVars

\* Line 192: one readFile throws; Promise.all rejects with the first such
\* error and scan with it. The other reads go on.
ReadFileFails ==
    /\ \E fp \in DOMAIN s_reads :
           /\ s_reads[fp] = "pending"
           /\ ~s_disk[relative(s_config.scanDir, fp)].readable
           /\ s_reads' = [s_reads EXCEPT ![fp] = "rejected"]
           /\ s_pc' = afterReadRejected(s_pc)
           /\ s_error' = IF s_pc' = "rejected" /\ s_pc = "reading"
                         THEN ErrReadFile ELSE s_error
           /\ UNCHANGED <<s_root, s_disk, s_config, s_filePaths,
                          s_fileContents, s_fileReports>>
    /\ UNCHANGED notScanVars

\* Promise.all over the reads: fulfilled once every one of them is.
PromiseAll_any(reads) ==
    \E fp \in DOMAIN reads : reads[fp] = "fulfilled"
PromiseAll(reads) ==
    \A fp \in DOMAIN reads : reads[fp] = "fulfilled"

\* Line 190: await Promise.all(...) returns once every read is fulfilled (a
\* rejection has ended scan before).
AllReadsJoined ==
    /\ s_pc = "reading"
    /\ PromiseAll(s_reads)
    /\ s_pc' = "scanning"
    /\ UNCHANGED <<s_root, s_disk, s_config, s_filePaths, s_reads,
                   s_fileContents, s_fileReports, s_error>>
    /\ UNCHANGED notScanVars

\* Lines 199-203: one iteration of the loop over the Map.
ScanNextFile ==
    /\ s_pc = "scanning"
    /\ Len(s_fileReports) < Len(s_fileContents)
    /\ ~scanThrows(s_config)
    /\ LET entry == s_fileContents[Len(s_fileReports) + 1]
           relativePath == relative(s_config.scanDir, entry.fp)
       IN  s_fileReports' =
               Append(s_fileReports,
                      scanFileContent(entry.content, relativePath, s_config))
    /\ UNCHANGED <<s_pc, s_root, s_disk, s_config, s_filePaths, s_reads,
                   s_fileContents, s_error>>
    /\ UNCHANGED notScanVars

\* Line 201 when scanFileContent throws (line 56): scan rejects.
ScanNextFileThrows ==
    /\ s_pc = "scanning"
    /\ Len(s_fileReports) < Len(s_fileContents)
    /\ scanThrows(s_config)
    /\ s_pc' = "rejected"
    /\ s_error' = ErrRegExp
    /\ UNCHANGED <<s_root, s_disk, s_config, s_filePaths, s_reads,
                   s_fileContents, s_fileReports>>
    /\ UNCHANGED notScanVars

\* Lines 205-209: scan returns { fileReports, fileContents, totalFiles }.
ScanReturns ==
    /\ s_pc = "scanning"
    /\ Len(s_fileReports) = Len(s_fileContents)
    /\ s_pc' = "resolved"
    /\ UNCHANGED <<s_root, s_disk, s_config, s_filePaths, s_reads,
                   s_fileContents, s_fileReports, s_error>>
    /\ UNCHANGED notScanVars

-----------------------------------------------------------------------------
(* Migration analyzer: text, identifiers and the regular expressions *)

\* For the migration analyzer a file's text is the sequence of its lines
\* (content.split("\n")), and a line the sequence of its tokens, whitespace
\* between them. An identifier is spelled as its words: "DataTable" is the
\* words data, table, each capitalised, with no separator; "data-table" the
\* same words in lower case with separator "-".  lead is what comes
\* before the first word: nothing, or characters that have no case ("_").
Spelling(sep, caps, words) ==
    [lead |-> "", sep |-> sep,
     words |-> [i \in 1..Len(words) |-> [cap |-> caps, w |-> words[i]]]]
Plain(w) == Spelling("", FALSE, <<w>>)
WithLead(lead, name) == [name EXCEPT !.lead = lead]

Kw(k)     == [t |-> "kw",    v |-> Plain(k)]    \* import, from, require
Punct(c)  == [t |-> "punct", v |-> Plain(c)]    \* { }
Mark(c)   == [t |-> "mark",  v |-> Plain(c)]    \* // /* *
Quote(q)  == [t |-> "quote", v |-> Plain(q)]    \* 'module/path'
Ident(n)  == [t |-> "ident", v |-> n]           \* a word of the line
Tag(n)    == [t |-> "tag",   v |-> n]           \* <n or </n, then space, /, > or end

\* String.prototype.toLowerCase
toLowerCase(name) ==
    [lead |-> name.lead, sep |-> name.sep,
     words |-> [i \in 1..Len(name.words) |-> [cap |-> FALSE, w |-> name.words[i].w]]]

\* toKebabCase: a "-" between a lower-case letter and the capital after it,
\* then lower case.
toKebabCase(name) ==
    [lead |-> name.lead,
     sep |-> IF Len(name.words) > 1 /\ name.sep = "" /\ name.words[2].cap
             THEN "-" ELSE name.sep,
     words |-> [i \in 1..Len(name.words) |-> [cap |-> FALSE, w |-> name.words[i].w]]]

\* componentName[0] === componentName[0].toUpperCase(): the first character
\* is a capital, or has no case.
startsUpperCase(name) == name.lead # "" \/ name.words[1].cap

HTML_NATIVE_PATTERN == "html-native"

\* trimmed.startsWith("//") || trimmed.startsWith("/*") || trimmed.startsWith("*")
isCommentTokens(line) == line # <<>> /\ line[1].t = "mark"

\* importRegex.test(line): import or from, later the quoted module path; or
\* require( with the quoted module path.
importRegexTest(line, importPattern) ==
    \/ \E i, j \in 1..Len(line) :
          /\ i < j
          /\ line[i] \in {Kw("import"), Kw("from")}
          /\ line[j] = Quote(importPattern)
    \/ \E i \in 1..(Len(line) - 1) :
          /\ line[i] = Kw("require")
          /\ line[i+1] = Quote(importPattern)

\* \bName\b: the name as a word of the line or as the name of a tag.
isWord(tok, name) == tok.t \in {"ident", "tag"} /\ tok.v = name

\* namedImportRegex.test(line)
namedImportRegexTest(line, componentName) ==
    \* \bName\b.*from\s+['"]
    \/ \E i, j \in 1..(Len(line) - 1) :
          /\ i < j
          /\ isWord(line[i], componentName)
          /\ line[j] = Kw("from")
          /\ line[j+1].t = "quote"
    \* import\s+Name\b
    \/ \E i \in 1..(Len(line) - 1) :
          /\ line[i] = Kw("import")
          /\ line[i+1] = Ident(componentName)
    \* import\s*\{[^}]*\bName\b[^}]*\}
    \/ \E i, k, c \in 1..Len(line) :
          /\ i + 1 < k /\ k < c
          /\ line[i] = Kw("import")
          /\ line[i+1] = Punct("{")
          /\ isWord(line[k], componentName)
          /\ line[c] = Punct("}")
          /\ \A x \in (i+2)..(c-1) : line[x] # Punct("}")

\* jsxRegex.test(line) and templateRegex.test(line): a tag of that name.
tagRegexTest(line, name) == \E i \in 1..Len(line) : line[i] = Tag(name)

-----------------------------------------------------------------------------
(* Migration analyzer: detectComponentUsage *)

\* Lines 106-118: the usage lines pushed for one line (i is 0-based).
pushUsage(usageLines, line, i, componentName) ==
    LET kebabName == toKebabCase(componentName)
        hasTemplateRegex == kebabName # toLowerCase(componentName)
        afterJsx == IF tagRegexTest(line, componentName)
                    THEN Append(usageLines, i + 1) ELSE usageLines
    IN  IF hasTemplateRegex /\ tagRegexTest(line, kebabName)
        THEN Append(afterJsx, i + 1) ELSE afterJsx

\* The loop of lines 88-119 from line i (0-based).
RECURSIVE detectFrom(_, _, _, _, _)
detectFrom(lines, i, componentName, importPattern, acc) ==
    IF i >= Len(lines) THEN acc
    ELSE LET line == lines[i + 1]
             isNativeHtml == importPattern = HTML_NATIVE_PATTERN
         IN  IF isCommentTokens(line)
             THEN detectFrom(lines, i + 1, componentName, importPattern, acc)
             ELSE IF /\ ~isNativeHtml
                     /\ \/ importRegexTest(line, importPattern)
                        \/ namedImportRegexTest(line, componentName)
             THEN detectFrom(lines, i + 1, componentName, importPattern,
                      [acc EXCEPT !.importLines = Append(@, i + 1),
                                  !.hasImport = TRUE])
             ELSE detectFrom(lines, i + 1, componentName, importPattern,
                      [acc EXCEPT !.usageLines =
                                      pushUsage(@, line, i, componentName)])

detectComponentUsage(content, componentName, importPattern) ==
    LET acc == detectFrom(content, 0, componentName, importPattern,
                   [importLines |-> <<>>, usageLines |-> <<>>,
                    hasImport |-> importPattern = HTML_NATIVE_PATTERN])
    IN  IF ~acc.hasImport /\ Len(acc.usageLines) > 0
           /\ ~startsUpperCase(componentName)
        THEN [importLines |-> <<>>, usageLines |-> <<>>]
        ELSE [importLines |-> acc.importLines, usageLines |-> acc.usageLines]

-----------------------------------------------------------------------------
(* Migration analyzer: analyzeMigration *)

\* Lines 177-196: the MigrationFileUsage records of one mapping, in the
\* order of the Map, files without occurrence left out.
RECURSIVE mappingFiles(_, _, _, _)
mappingFiles(fileContents, n, scanDir, mapping) ==
    IF n > Len(fileContents) THEN <<>>
    ELSE LET usage == detectComponentUsage(fileContents[n].content,
                          mapping.source, mapping.sourceImportPattern)
             totalOccurrences == Len(usage.importLines) + Len(usage.usageLines)
             rest == mappingFiles(fileContents, n + 1, scanDir, mapping)
         IN  IF totalOccurrences = 0 THEN rest
             ELSE <<[path |-> relative(scanDir, fileContents[n].fp),
                     importLines |-> usage.importLines,
                     usageLines |-> usage.usageLines,
                     totalOccurrences |-> totalOccurrences]>> \o rest

\* totalUsages += totalOccurrences
RECURSIVE sumOccurrences(_)
sumOccurrences(files) ==
    IF files = <<>> THEN 0
    ELSE Head(files).totalOccurrences + sumOccurrences(Tail(files))

\* files.sort((a, b) => b.totalOccurrences - a.totalOccurrences): stable.
\* Also line 269, .sort((a, b) => b.total - a.total).  The records are
\* sorted on the field named key.
RECURSIVE insertDescending(_, _, _)
insertDescending(sorted, x, key) ==
    IF sorted = <<>> THEN <<x>>
    ELSE IF Head(sorted)[key] >= x[key]
         THEN <<Head(sorted)>> \o insertDescending(Tail(sorted), x, key)
         ELSE <<x>> \o sorted

RECURSIVE sortDescending(_, _, _)
sortDescending(items, acc, key) ==
    IF items = <<>> THEN acc
    ELSE sortDescending(Tail(items), insertDescending(acc, Head(items), key), key)

\* Lines 209-226: the MigrationComponentReport of one mapping (the fields
\* copied from the mapping unchanged are kept to source, target, complexity).
componentReport_migratedIfNotImported(mapping, files, totalUsages) ==
    [source        |-> mapping.source,
     target        |-> mapping.target,
     complexity    |-> mapping.complexity,
     totalUsages   |-> totalUsages,
     filesAffected |-> Len(files),
     files         |-> sortDescending(files, <<>>, "totalOccurrences"),
     migrated      |-> \A n \in 1..Len(files) : files[n].importLines = <<>>]
componentReport(mapping, files, totalUsages) ==
    [source        |-> mapping.source,
     target        |-> mapping.target,
     complexity    |-> mapping.complexity,
     totalUsages   |-> totalUsages,
     filesAffected |-> Len(files),
     files         |-> sortDescending(files, <<>>, "totalOccurrences"),
     migrated      |-> totalUsages = 0]

\* Lines 172-227: the components in the order of config.migration.mappings.
RECURSIVE mappingReportsFrom(_, _, _, _)
mappingReportsFrom(fileContents, scanDir, mappings, n) ==
    IF n > Len(mappings) THEN <<>>
    ELSE LET files == mappingFiles(fileContents, 1, scanDir, mappings[n])
         IN  <<componentReport(mappings[n], files, sumOccurrences(files))>>
             \o mappingReportsFrom(fileContents, scanDir, mappings, n + 1)

\* complexityOrder.indexOf(complexity)
complexityIndex(complexity) ==
    CASE complexity = "simple" -> 0
      [] complexity = "moderate" -> 1
      [] complexity = "complex" -> 2
      [] OTHER -> -1

\* The comparator of lines 231-237.
compareComponents_usagesAscending(a, b) ==
    IF a.migrated # b.migrated THEN (IF a.migrated THEN 1 ELSE -1)
    ELSE IF complexityIndex(a.complexity) # complexityIndex(b.complexity)
         THEN complexityIndex(a.complexity) - complexityIndex(b.complexity)
         ELSE a.totalUsages - b.totalUsages
compareComponents(a, b) ==
    IF a.migrated # b.migrated THEN (IF a.migrated THEN 1 ELSE -1)
    ELSE IF complexityIndex(a.complexity) # complexityIndex(b.complexity)
         THEN complexityIndex(a.complexity) - complexityIndex(b.complexity)
         ELSE b.totalUsages - a.totalUsages

\* components.sort(comparator): stable.
RECURSIVE insertComponent(_, _)
insertComponent(sorted, c) ==
    IF sorted = <<>> THEN <<c>>
    ELSE IF compareComponents(Head(sorted), c) <= 0
         THEN <<Head(sorted)>> \o insertComponent(Tail(sorted), c)
         ELSE <<c>> \o sorted

RECURSIVE sortComponentsAcc(_, _)
sortComponentsAcc(components, acc) ==
    IF components = <<>> THEN acc
    ELSE sortComponentsAcc(Tail(components), insertComponent(acc, Head(components)))

Tiers == {"simple", "moderate", "complex"}

\* Lines 240-255: byComplexity over the components to migrate.
byComplexityOf(toMigrate) ==
    [tier \in Tiers |->
        LET group == SelectSeq(toMigrate, LAMBDA c : c.complexity = tier)
        IN  [count  |-> Len(group),
             usages |-> SumOver(1..Len(group),
                                [n \in 1..Len(group) |-> group[n].totalUsages]),
             files  |-> SumOver(1..Len(group),
                                [n \in 1..Len(group) |->
                                    Cardinality({group[n].files[x].path :
                                                    x \in 1..Len(group[n].files)})])]]

\* Lines 247, 254: allAffectedFiles
allAffectedFilesOf(toMigrate) ==
    UNION {{toMigrate[n].files[x].path : x \in 1..Len(toMigrate[n].files)} :
              n \in 1..Len(toMigrate)}

Null == [null |-> TRUE]

\* Lines 198-202: legacyByFile after the files of one native mapping (from
\* the x-th), as the Map's entries [path, byElement] in insertion order.
RECURSIVE legacyAddFiles(_, _, _, _)
legacyAddFiles(legacyByFile, files, source, x) ==
    IF x > Len(files) THEN legacyByFile
    ELSE LET f == files[x]
             known == \E e \in 1..Len(legacyByFile) : legacyByFile[e].path = f.path
             bump(fileCounts) ==
                 [src \in DOMAIN fileCounts \cup {source} |->
                     IF src = source
                     THEN (IF src \in DOMAIN fileCounts THEN fileCounts[src] ELSE 0)
                          + f.totalOccurrences
                     ELSE fileCounts[src]]
             next == IF known
                     THEN [e \in 1..Len(legacyByFile) |->
                              IF legacyByFile[e].path = f.path
                              THEN [legacyByFile[e] EXCEPT !.byElement = bump(@)]
                              ELSE legacyByFile[e]]
                     ELSE Append(legacyByFile,
                                 [path |-> f.path, byElement |-> bump(<<>>)])
         IN  legacyAddFiles(next, files, source, x + 1)

RECURSIVE legacyByFileOf(_, _, _, _, _)
legacyByFileOf(fileContents, scanDir, mappings, n, legacyByFile) ==
    IF n > Len(mappings) THEN legacyByFile
    ELSE IF mappings[n].sourceImportPattern # HTML_NATIVE_PATTERN
         THEN legacyByFileOf(fileContents, scanDir, mappings, n + 1, legacyByFile)
         ELSE legacyByFileOf(fileContents, scanDir, mappings, n + 1,
                  legacyAddFiles(legacyByFile,
                                 mappingFiles(fileContents, 1, scanDir, mappings[n]),
                                 mappings[n].source, 1))

\* Lines 205-207: legacyByElement[source], set by the last native mapping of
\* that source that has usages (reports[n] is the report of mappings[n]).
legacyByElementOf(reports, mappings) ==
    LET native == {n \in 1..Len(mappings) :
                      /\ mappings[n].sourceImportPattern = HTML_NATIVE_PATTERN
                      /\ reports[n].totalUsages > 0}
        last(src) == CHOOSE n \in native :
                        /\ mappings[n].source = src
                        /\ \A k \in native : mappings[k].source = src => k <= n
    IN  [src \in {mappings[n].source : n \in native} |->
            [usages |-> reports[last(src)].totalUsages,
             files  |-> reports[last(src)].filesAffected]]

\* Lines 257-277
legacyHtmlOf(legacyByElement, legacyByFile) ==
    IF DOMAIN legacyByElement = {} THEN Null
    ELSE LET fileDetails ==
                 sortDescending(
                     [e \in 1..Len(legacyByFile) |->
                         [path |-> legacyByFile[e].path,
                          byElement |-> legacyByFile[e].byElement,
                          total |-> SumOver(DOMAIN legacyByFile[e].byElement,
                                            legacyByFile[e].byElement)]],
                     <<>>, "total")
         IN  [totalElements |->
                  SumOver(DOMAIN legacyByElement,
                          [k \in DOMAIN legacyByElement |-> legacyByElement[k].usages]),
              totalFiles  |-> Len(fileDetails),
              byElement   |-> legacyByElement,
              fileDetails |-> fileDetails]

\* The report of lines 148-164, for no mapping.
emptyMigrationReport(targetDS) ==
    [targetDS   |-> IF targetDS # "" THEN targetDS ELSE "your target design system",
     legacyHtml |-> Null,
     summary    |-> [totalMappings |-> 0, totalToMigrate |-> 0, totalMigrated |-> 0,
                     totalUsages |-> 0, totalFilesAffected |-> 0,
                     byComplexity |-> [tier \in Tiers |->
                                          [count |-> 0, usages |-> 0, files |-> 0]]],
     components |-> <<>>]

\* Lines 239-256: the summary of the components and of those to migrate.
migrationSummaryOf(components, toMigrate) ==
    [totalMappings  |-> Len(components),
     totalToMigrate |-> Len(toMigrate),
     totalMigrated  |-> Len(components) - Len(toMigrate),
     totalUsages    |-> SumOver(1..Len(toMigrate),
                           [n \in 1..Len(toMigrate) |-> toMigrate[n].totalUsages]),
     totalFilesAffected |-> Cardinality(allAffectedFilesOf(toMigrate)),
     byComplexity   |-> byComplexityOf(toMigrate)]

\* Lines 231-285: the report made of the sorted components.
migrationReportFrom(targetDS, legacyHtml, components) ==
    [targetDS   |-> targetDS,
     legacyHtml |-> legacyHtml,
     summary    |-> migrationSummaryOf(components,
                        SelectSeq(components, LAMBDA c : ~c.migrated)),
     components |-> components]

\* Lines 196-285: the report made of the reports of the mappings.
migrationReportOf(fileContents, scanDir, mappings, targetDS, reports) ==
    migrationReportFrom(
        targetDS,
        legacyHtmlOf(legacyByElementOf(reports, mappings),
                     legacyByFileOf(fileContents, scanDir, mappings, 1, <<>>)),
        sortComponentsAcc(reports, <<>>))

\* analyzeMigration without the test of lines 143-145.
analyzeMigration_ignoresEnabled(fileContents, scanDir, config) ==
    IF Len(config.migration.mappings) = 0
    THEN emptyMigrationReport(config.migration.targetDS)
    ELSE migrationReportOf(fileContents, scanDir, config.migration.mappings,
                           config.migration.targetDS,
                           mappingReportsFrom(fileContents, scanDir,
                                              config.migration.mappings, 1))

\* Lines 138-285
analyzeMigration(fileContents, scanDir, config) ==
    IF ~config.migration.enabled THEN Null
    ELSE IF Len(config.migration.mappings) = 0
         THEN emptyMigrationReport(config.migration.targetDS)
    ELSE migrationReportOf(fileContents, scanDir, config.migration.mappings,
                           config.migration.targetDS,
                           mappingReportsFrom(fileContents, scanDir,
                                              config.migration.mappings, 1))

-----------------------------------------------------------------------------
(* SpecMigration: analyzeMigration over two files *)

Button    == Spelling("", TRUE, <<"button">>)
DataTable == Spelling("", TRUE, <<"data", "table">>)
Div       == Spelling("", FALSE, <<"div">>)

\* The lines explored:
\*   import { Button } from "@company/ui"
\*   <Button variant>
\*   <div>
\*   // <Button>
MigLines ==
    {<<Kw("import"), Punct("{"), Ident(Button), Punct("}"), Kw("from"),
       Quote("@company/ui")>>,
     <<Tag(Button), Ident(Plain("variant"))>>,
     <<Tag(Div)>>,
     <<Mark("//"), Tag(Button)>>}
MigContents == UNION {[1..k -> MigLines] : k \in 0..MaxMigLines}

MigPaths ==
    <<[dir |-> <<"components">>, name |-> 1, ext |-> ".tsx"],
      [dir |-> <<"pages">>, name |-> 2, ext |-> ".tsx"]>>

\* The mappings explored: DataTable and Button from "@company/ui", and the
\* native element div, each with any complexity.
MigMappings ==
    {<<[source |-> DataTable, sourceImportPattern |-> "@company/ui",
        target |-> "Table", complexity |-> c1],
       [source |-> Button, sourceImportPattern |-> "@company/ui",
        target |-> "NewButton", complexity |-> c2],
       [source |-> Div, sourceImportPattern |-> HTML_NATIVE_PATTERN,
        target |-> "Box", complexity |-> c3]>> :
        c1 \in Tiers, c2 \in Tiers, c3 \in Tiers}

MigConfigs ==
    {[scanDir |-> "src",
      migration |-> [enabled |-> TRUE, targetDS |-> "shadcn/ui", mappings |-> ms]] :
        ms \in MigMappings}
    \cup {[scanDir |-> "src",
           migration |-> [enabled |-> TRUE, targetDS |-> "", mappings |-> <<>>]]}
    \cup {[scanDir |-> "src",
           migration |-> [enabled |-> FALSE, targetDS |-> "shadcn/ui",
                          mappings |-> ms]] :
             ms \in {x \in MigMappings : \A n \in 1..3 : x[n].complexity = "simple"}}

MigIdle ==
    /\ m_pc = "idle" /\ m_fileContents = <<>> /\ m_config = <<>>
    /\ m_report = NoReport

MigInit ==
    /\ m_pc = "init"
    /\ m_config \in MigConfigs
    /\ \E c1 \in MigContents, c2 \in MigContents :
          m_fileContents =
              <<[fp |-> join(m_config.scanDir, MigPaths[1]), content |-> c1],
                [fp |-> join(m_config.scanDir, MigPaths[2]), content |-> c2]>>
    /\ m_report = NoReport

\* analyzeMigration with migration enabled and mappings configured.
AnalyzeMigration ==
    /\ m_pc = "init"
    /\ m_config.migration.enabled
    /\ Len(m_config.migration.mappings) > 0
    /\ m_report' = analyzeMigration(m_fileContents, m_config.scanDir, m_config)
    /\ m_pc' = "returned"
    /\ UNCHANGED <<m_fileContents, m_config>>
    /\ UNCHANGED notMigVars

\* analyzeMigration with migration enabled and no mapping (lines 147-165).
AnalyzeMigrationNoMappings ==
    /\ m_pc = "init"
    /\ m_config.migration.enabled
    /\ Len(m_config.migration.mappings) = 0
    /\ m_report' = analyzeMigration(m_fileContents, m_config.scanDir, m_config)
    /\ m_pc' = "returned"
    /\ UNCHANGED <<m_fileContents, m_config>>
    /\ UNCHANGED notMigVars

\* analyzeMigration with migration disabled (lines 143-145).
AnalyzeMigrationDisabled ==
    /\ m_pc = "init"
    /\ ~m_config.migration.enabled
    /\ m_report' = analyzeMigration(m_fileContents, m_config.scanDir, m_config)
    /\ m_pc' = "returned"
    /\ UNCHANGED <<m_fileContents, m_config>>
    /\ UNCHANGED notMigVars

-----------------------------------------------------------------------------
(* detectComponentUsage on one file (SpecDetect) *)

\* The component names explored: Button, DataTable, div and _div.
DetectNames == {Button, DataTable, Div, WithLead("_", Div)}

DetectPatterns == {"@company/ui", HTML_NATIVE_PATTERN}

\* The lines explored for a component name n (kebab-case k):
\*   import { n } from "@company/ui"
\*   import { Card } from "@company/ui"
\*   <n>
\*   <k>
\*   <n> <k>
\*   // <n>
\*   <span>
DetectLines(n) ==
    {<<Kw("import"), Punct("{"), Ident(n), Punct("}"), Kw("from"),
       Quote("@company/ui")>>,
     <<Kw("import"), Punct("{"), Ident(Spelling("", TRUE, <<"card">>)),
       Punct("}"), Kw("from"), Quote("@company/ui")>>,
     <<Tag(n)>>,
     <<Tag(toKebabCase(n))>>,
     <<Tag(n), Tag(toKebabCase(n))>>,
     <<Mark("//"), Tag(n)>>,
     <<Tag(Plain("span"))>>}

DetectIdle ==
    /\ u_pc = "idle" /\ u_content = <<>> /\ u_name = Div /\ u_pattern = ""
    /\ u_usage = NoReport

DetectInit ==
    /\ u_pc = "init"
    /\ u_name \in DetectNames
    /\ u_pattern \in DetectPatterns
    /\ u_content \in UNION {[1..k -> DetectLines(u_name)] : k \in 0..MaxDetectLines}
    /\ u_usage = NoReport

\* What the loop of lines 88-119 leaves in importLines, usageLines, hasImport.
detected(content, componentName, importPattern) ==
    detectFrom(content, 0, componentName, importPattern,
        [importLines |-> <<>>, usageLines |-> <<>>,
         hasImport |-> importPattern = HTML_NATIVE_PATTERN])

\* detectComponentUsage returns what the loop found (line 131).
DetectReturnsFound ==
    /\ u_pc = "init"
    /\ LET acc == detected(u_content, u_name, u_pattern)
       IN  ~(~acc.hasImport /\ Len(acc.usageLines) > 0 /\ ~startsUpperCase(u_name))
    /\ u_usage' = detectComponentUsage(u_content, u_name, u_pattern)
    /\ u_pc' = "returned"
    /\ UNCHANGED <<u_content, u_name, u_pattern>>
    /\ UNCHANGED notDetectVars

\* detectComponentUsage discards what the loop found (lines 123-129).
DetectDiscards ==
    /\ u_pc = "init"
    /\ LET acc == detected(u_content, u_name, u_pattern)
       IN  ~acc.hasImport /\ Len(acc.usageLines) > 0 /\ ~startsUpperCase(u_name)
    /\ u_usage' = detectComponentUsage(u_content, u_name, u_pattern)
    /\ u_pc' = "returned"
    /\ UNCHANGED <<u_content, u_name, u_pattern>>
    /\ UNCHANGED notDetectVars

-----------------------------------------------------------------------------
(* Component API analyzer: src/src/component-analyzer.ts *)

\* A path is the sequence of its pieces, separators included:
\* "ui/Button.tsx" is <<"ui", "/", "Button", ".tsx">>, and the directory
\* "ui/" is <<"ui", "/">>.  String.prototype.startsWith is startsWith above.
endsWith(s, p) ==
    Len(s) >= Len(p) /\ SubSeq(s, Len(s) - Len(p) + 1, Len(s)) = p

\* A component file is the sequence of its lines; a line is one of
\*   ExportLine(n)  export function n(props)
\*   ImportLine(m)  import * as X from "m"
\*   CvaLine        const v = cva("base", {
\*   OpenLine(p)      p: {
\*   KeyLine(k)         k: "classes",
\*   CloseLine        },
\*   WordLine(w)    a line of code that mentions the identifier w, as in "w,"
ExportLine(n) == [t |-> "export", v |-> n]
ImportLine(m) == [t |-> "import", v |-> m]
CvaLine       == [t |-> "cva",    v |-> ""]
OpenLine(p)   == [t |-> "open",   v |-> p]
KeyLine(k)    == [t |-> "key",    v |-> k]
CloseLine     == [t |-> "close",  v |-> ""]
WordLine(w)   == [t |-> "word",   v |-> w]

\* The first of the line numbers where a regular expression matches, or 0.
firstOf(found) ==
    IF found = {} THEN 0
    ELSE CHOOSE x \in found : \A y \in found : x <= y

\* The lines that mention the identifier w: it is the word of a WordLine or
\* the property name of an OpenLine or KeyLine.
mentions(content, w) ==
    \E n \in 1..Len(content) :
        content[n].t \in {"word", "open", "key"} /\ content[n].v = w

\* Lines 41-47: exportMatch?.[1] || defaultExportMatch?.[1] || file name.
\* The file name is the piece before the extension.
componentName(content, relativePath) ==
    LET n == firstOf({x \in 1..Len(content) : content[x].t = "export"})
    IN  IF n > 0 THEN content[n].v
        ELSE IF Len(relativePath) >= 2
             THEN relativePath[Len(relativePath) - 1]
        ELSE "Unknown"

\* Line 50: /\bcva\s*\(/ or an import from "class-variance-authority".
usesCVAOf(content) ==
    \E n \in 1..Len(content) :
        \/ content[n].t = "cva"
        \/ content[n].t = "import" /\ content[n].v = "class-variance-authority"

\* Line 51: an import from a module that starts with @radix-ui or radix-ui.
usesRadixOf(content) ==
    \E n \in 1..Len(content) :
        /\ content[n].t = "import"
        /\ content[n].v \in {"@radix-ui/react-slot", "radix-ui"}

\* Lines 60 and 75, 91: the property names at the start of a line of the
\* captured text (/^\s*(\w+)\s*:/gm), in order.
RECURSIVE keysBetween(_, _, _)
keysBetween(content, n, j) ==
    IF n >= j THEN <<>>
    ELSE (IF content[n].t \in {"open", "key"} THEN <<content[n].v>> ELSE <<>>)
         \o keysBetween(content, n + 1, j)

\* Lines 58 and 73, 89: a block regular expression matches from the first
\* line that opens the property, lazily, to the first closing brace after
\* it; without one there is no match.
blockKeys(content, prop) ==
    LET i == firstOf({x \in 1..Len(content) : content[x] = OpenLine(prop)})
        j == IF i = 0 THEN 0
             ELSE firstOf({x \in (i + 1)..Len(content) : content[x] = CloseLine})
    IN  IF j = 0 THEN <<>> ELSE keysBetween(content, i + 1, j)

\* Lines 57-69
variantPropsOf(content) ==
    LET isProp(k) == k \notin {"class", "className"}
    IN  SelectSeq(blockKeys(content, "variants"), isProp)

\* Lines 72-82
sizeValuesOf(content) == blockKeys(content, "size")

\* Lines 85-99
RECURSIVE variantValuesFrom(_, _, _)
variantValuesFrom(content, propsToSearch, n) ==
    IF n > Len(propsToSearch) THEN <<>>
    ELSE (IF propsToSearch[n] = "size" THEN <<>>
          ELSE blockKeys(content, propsToSearch[n]))
         \o variantValuesFrom(content, propsToSearch, n + 1)

variantValuesOf(content, api) ==
    variantValuesFrom(content, api.expectedProps \o api.forbiddenProps, 1)

\* Line 30: dir.replace(/\/$/, "").split("/").pop() || "legacy", as the
\* pieces of the last segment.
RECURSIVE lastSegmentFrom(_, _)
lastSegmentFrom(dir, n) ==
    IF n = 0 \/ dir[n] = "/" THEN <<>>
    ELSE lastSegmentFrom(dir, n - 1) \o <<dir[n]>>

lastSegment(dir) ==
    LET stripped == IF Len(dir) > 0 /\ dir[Len(dir)] = "/"
                    THEN SubSeq(dir, 1, Len(dir) - 1) ELSE dir
        seg == lastSegmentFrom(stripped, Len(stripped))
    IN  IF seg = <<>> THEN <<"legacy">> ELSE seg

\* locationFrom with the last directory that the path starts with.
RECURSIVE locationFrom_lastMatch(_, _, _)
locationFrom_lastMatch(relativePath, apiConfig, n) ==
    IF n > Len(apiConfig.directories) THEN <<"other">>
    ELSE LET dir == apiConfig.directories[n]
             later == locationFrom_lastMatch(relativePath, apiConfig, n + 1)
         IN  IF later # <<"other">> THEN later
             ELSE IF startsWith(relativePath, dir)
             THEN IF dir = apiConfig.primaryDirectory
                  THEN <<"primary">> ELSE lastSegment(dir)
             ELSE <<"other">>

\* Lines 27-33: the location given by the first directory, from the n-th,
\* that the path starts with.
RECURSIVE locationFrom(_, _, _)
locationFrom(relativePath, apiConfig, n) ==
    IF n > Len(apiConfig.directories) THEN <<"other">>
    ELSE LET dir == apiConfig.directories[n]
         IN  IF startsWith(relativePath, dir)
             THEN IF dir = apiConfig.primaryDirectory
                  THEN <<"primary">> ELSE lastSegment(dir)
             ELSE locationFrom(relativePath, apiConfig, n + 1)

\* Lines 37-38: index/barrel files and helper files.
isBarrelOrHelper(relativePath) ==
    \/ endsWith(relativePath, <<"index", ".ts">>)
    \/ endsWith(relativePath, <<"index", ".tsx">>)
    \/ \E h \in {"helpers", "types", "utils", "constants"},
          e \in {".ts", ".tsx"} : endsWith(relativePath, <<"/", h, e>>)

ComponentIssue(type, severity) == [type |-> type, severity |-> severity]

\* expectedProps.filter((p) => p !== "size")
exceptSize(props) == LET notSize(p) == p # "size" IN SelectSeq(props, notSize)

\* Lines 102-167
issuesOf(content, relativePath, apiConfig) ==
    LET api == apiConfig.api
        variantProps == variantPropsOf(content)
        isForbiddenProp(p) == p \in SeqToSet(api.forbiddenProps)
        isForbiddenSize(v) == v \in SeqToSet(api.forbiddenSizes)
        isLegacyValue(v) == v \in SeqToSet(api.legacyVariantValues)
        forbidden == SelectSeq(variantProps, isForbiddenProp)
        hasExpectedPair ==
            SeqToSet(exceptSize(api.expectedProps)) \subseteq SeqToSet(variantProps)
    IN  (IF /\ ~usesCVAOf(content)
            /\ api.requireCVA
            /\ startsWith(relativePath, apiConfig.primaryDirectory)
         THEN <<ComponentIssue("cva", "error")>> ELSE <<>>)
        \o (IF ~mentions(content, "className")
            THEN <<ComponentIssue("props", "warning")>> ELSE <<>>)
        \o [n \in 1..Len(forbidden) |-> ComponentIssue("naming", "error")]
        \o (IF /\ usesCVAOf(content)
               /\ hasExpectedPair
               /\ ~mentions(content, "compoundVariants")
            THEN <<ComponentIssue("compound", "warning")>> ELSE <<>>)
        \o (IF SelectSeq(sizeValuesOf(content), isForbiddenSize) # <<>>
            THEN <<ComponentIssue("sizes", "error")>> ELSE <<>>)
        \o (IF SelectSeq(variantValuesOf(content, api), isLegacyValue) # <<>>
            THEN <<ComponentIssue("variants", "error")>> ELSE <<>>)

\* scoreOf with the weight usesCompoundVariants given for compoundVariants
\* alone, and not to a component without CVA.
scoreOf_compoundOnly(content, relativePath, apiConfig) ==
    LET w == apiConfig.scoring
        api == apiConfig.api
        usesCVA == usesCVAOf(content)
        usesRadix == usesRadixOf(content)
        sizeValues == sizeValuesOf(content)
        isForbiddenSize(v) == v \in SeqToSet(api.forbiddenSizes)
        badSizes == SelectSeq(sizeValues, isForbiddenSize)
    IN  (IF usesCVA THEN w.usesCVA ELSE 0)
        + (IF SeqToSet(variantPropsOf(content)) \cap SeqToSet(api.forbiddenProps) = {}
           THEN w.correctNaming ELSE 0)
        + (IF Len(sizeValues) = 0 \/ Len(badSizes) = 0 THEN w.correctSizes ELSE 0)
        + (IF mentions(content, "className") THEN w.hasClassName ELSE 0)
        + (IF mentions(content, "compoundVariants")
           THEN w.usesCompoundVariants ELSE 0)
        + (IF mentions(content, "asChild") \/ ~usesRadix THEN w.hasAsChild ELSE 0)
        + (IF usesRadix \/ ~startsWith(relativePath, apiConfig.primaryDirectory)
           THEN w.usesRadix ELSE 0)

\* Lines 170-180: the sum of the weights of the checks that pass.
scoreOf(content, relativePath, apiConfig) ==
    LET w == apiConfig.scoring
        api == apiConfig.api
        usesCVA == usesCVAOf(content)
        usesRadix == usesRadixOf(content)
        sizeValues == sizeValuesOf(content)
        isForbiddenSize(v) == v \in SeqToSet(api.forbiddenSizes)
        badSizes == SelectSeq(sizeValues, isForbiddenSize)
    IN  (IF usesCVA THEN w.usesCVA ELSE 0)
        + (IF SeqToSet(variantPropsOf(content)) \cap SeqToSet(api.forbiddenProps) = {}
           THEN w.correctNaming ELSE 0)
        + (IF Len(sizeValues) = 0 \/ Len(badSizes) = 0 THEN w.correctSizes ELSE 0)
        + (IF mentions(content, "className") THEN w.hasClassName ELSE 0)
        + (IF mentions(content, "compoundVariants") \/ ~usesCVA
           THEN w.usesCompoundVariants ELSE 0)
        + (IF mentions(content, "asChild") \/ ~usesRadix THEN w.hasAsChild ELSE 0)
        + (IF usesRadix \/ ~startsWith(relativePath, apiConfig.primaryDirectory)
           THEN w.usesRadix ELSE 0)

\* Line 195: Math.min(100, score)
complianceScoreOf(score) == Min(100, score)

\* Lines 21-204
analyzeComponent_skipsWithoutExport(content, relativePath, apiConfig) ==
    LET location == locationFrom(relativePath, apiConfig, 1)
    IN  IF location = <<"other">> THEN Null
        ELSE IF isBarrelOrHelper(relativePath) THEN Null
        ELSE IF \A n \in 1..Len(content) : content[n].t # "export" THEN Null
        ELSE [path |-> relativePath,
              name |-> componentName(content, relativePath),
              location |-> location,
              usesCVA |-> usesCVAOf(content),
              usesRadix |-> usesRadixOf(content),
              hasClassName |-> mentions(content, "className"),
              hasAsChild |-> mentions(content, "asChild"),
              usesCompoundVariants |-> mentions(content, "compoundVariants"),
              variantProps |-> variantPropsOf(content),
              sizeValues |-> sizeValuesOf(content),
              variantValues |-> variantValuesOf(content, apiConfig.api),
              issues |-> issuesOf(content, relativePath, apiConfig),
              complianceScore |->
                  complianceScoreOf(scoreOf(content, relativePath, apiConfig)),
              tokenCoverage |->
                  [score |-> 100, totalLines |-> 0, violationLines |-> 0,
                   violations |-> <<>>, totalViolations |-> 0]]

analyzeComponent(content, relativePath, apiConfig) ==
    LET location == locationFrom(relativePath, apiConfig, 1)
    IN  IF location = <<"other">> THEN Null
        ELSE IF isBarrelOrHelper(relativePath) THEN Null
        ELSE [path |-> relativePath,
              name |-> componentName(content, relativePath),
              location |-> location,
              usesCVA |-> usesCVAOf(content),
              usesRadix |-> usesRadixOf(content),
              hasClassName |-> mentions(content, "className"),
              hasAsChild |-> mentions(content, "asChild"),
              usesCompoundVariants |-> mentions(content, "compoundVariants"),
              variantProps |-> variantPropsOf(content),
              sizeValues |-> sizeValuesOf(content),
              variantValues |-> variantValuesOf(content, apiConfig.api),
              issues |-> issuesOf(content, relativePath, apiConfig),
              complianceScore |->
                  complianceScoreOf(scoreOf(content, relativePath, apiConfig)),
              tokenCoverage |->
                  [score |-> 100, totalLines |-> 0, violationLines |-> 0,
                   violations |-> <<>>, totalViolations |-> 0]]

(* analyzeComponent on one file (SpecComponent) *)

PrimaryDir == <<"ui", "/">>
LegacyDir  == <<"legacy", "/">>

CompPaths ==
    {<<"ui", "/", "Button", ".tsx">>,
     <<"legacy", "/", "Card", ".tsx">>,
     <<"ui", "/", "index", ".tsx">>,
     <<"lib", "/", "utils", ".tsx">>}

CompLines ==
    {ExportLine("Button"), ImportLine("@radix-ui/react-slot"), CvaLine,
     OpenLine("variants"), OpenLine("size"), OpenLine("type"),
     KeyLine("sm"), CloseLine,
     WordLine("className"), WordLine("asChild"), WordLine("compoundVariants")}

\* A component that passes each of the seven checks of lines 173-180.
FullComponent ==
    <<ImportLine("@radix-ui/react-slot"), CvaLine, WordLine("className"),
      WordLine("compoundVariants"), WordLine("asChild")>>

CompContents ==
    UNION {[1..k -> CompLines] : k \in 0..MaxCompLines} \cup {FullComponent}

Scoring(cva, naming, sizes, className, compound, asChild, radix) ==
    [usesCVA |-> cva, correctNaming |-> naming, correctSizes |-> sizes,
     hasClassName |-> className, usesCompoundVariants |-> compound,
     hasAsChild |-> asChild, usesRadix |-> radix]

\* src/src/config.ts:186-194, DEFAULT_CONFIG.componentAnalysis.scoring
DefaultScoring == Scoring(0, 35, 25, 15, 0, 0, 0)

\* The default weights, weights that sum to 100, to far more than 100 and to
\* far less, negative weights, and weights that tell the checks apart.
CompScorings ==
    {DefaultScoring,
     Scoring(25, 25, 15, 10, 15, 5, 5),
     Scoring(1, 2, 4, 8, 16, 32, 64),
     Scoring(60, 60, 60, 60, 60, 60, 60),
     Scoring(1, 1, 1, 1, 1, 1, 1),
     Scoring(0, -10, 0, 0, 0, 0, 0)}

CompConfigs ==
    {[directories |-> <<PrimaryDir, LegacyDir>>,
      primaryDirectory |-> PrimaryDir,
      api |-> [requireCVA |-> TRUE,
               expectedProps |-> <<"variant", "size">>,
               forbiddenProps |-> <<"type">>,
               expectedSizes |-> <<"small", "medium", "large">>,
               forbiddenSizes |-> <<"sm">>,
               legacyVariantValues |-> <<"sm">>],
      scoring |-> w] : w \in CompScorings}

CompIdle ==
    /\ c_pc = "idle" /\ c_content = <<>> /\ c_path = <<>> /\ c_config = <<>>
    /\ c_report = NoReport

CompInit ==
    /\ c_pc = "init"
    /\ c_content \in CompContents
    /\ c_path \in CompPaths
    /\ c_config \in CompConfigs
    /\ c_report = NoReport

\* analyzeComponent returns a ComponentApiReport.
AnalyzeComponentReturns ==
    /\ c_pc = "init"
    /\ analyzeComponent(c_content, c_path, c_config) # Null
    /\ c_report' = analyzeComponent(c_content, c_path, c_config)
    /\ c_pc' = "returned"
    /\ UNCHANGED <<c_content, c_path, c_config>>
    /\ UNCHANGED notCompVars

\* analyzeComponent returns null: the file is outside the component
\* directories, or is a barrel or helper file (lines 34-38).
AnalyzeComponentSkips ==
    /\ c_pc = "init"
    /\ analyzeComponent(c_content, c_path, c_config) = Null
    /\ c_report' = Null
    /\ c_pc' = "skipped"
    /\ UNCHANGED <<c_content, c_path, c_config>>
    /\ UNCHANGED notCompVars

-----------------------------------------------------------------------------
(* Roadmap builder: src/unnamed/part_000, lines 381-540 *)

\* A phase filter of config.roadmap.phases: prefix is used by a "directory"
\* filter and key by a "category" filter.
Filter(type, prefix, key) == [type |-> type, prefix |-> prefix, key |-> key]

\* f.violations[key]?.length || 0
categoryCount(f, key) ==
    IF key \in DOMAIN f.violations THEN Len(f.violations[key]) ELSE 0

\* Lines 399-439: whether the filter selects the FileReport f, and the count
\* it is listed with.
filterMatches_belowThreshold(filter, f, config) ==
    CASE filter.type = "flags"     -> f.totalFlags > 0
      [] filter.type = "directory" ->
             f.totalViolations > 0 /\ startsWith(f.path, filter.prefix)
      [] filter.type = "category"  -> categoryCount(f, filter.key) > 0
      [] filter.type = "quickWins" ->
             /\ f.totalViolations > 0
             /\ f.totalViolations < config.roadmap.quickWinThreshold
      [] filter.type = "all"       -> f.totalViolations > 0
      [] OTHER                     -> FALSE

filterMatches(filter, f, config) ==
    CASE filter.type = "flags"     -> f.totalFlags > 0
      [] filter.type = "directory" ->
             f.totalViolations > 0 /\ startsWith(f.path, filter.prefix)
      [] filter.type = "category"  -> categoryCount(f, filter.key) > 0
      [] filter.type = "quickWins" ->
             /\ f.totalViolations > 0
             /\ f.totalViolations <= config.roadmap.quickWinThreshold
      [] filter.type = "all"       -> f.totalViolations > 0
      [] OTHER                     -> FALSE

filterCount(filter, f) ==
    CASE filter.type = "flags"    -> f.totalFlags
      [] filter.type = "category" -> categoryCount(f, filter.key)
      [] OTHER                    -> f.totalViolations

\* Lines 399-439: matchedFiles, in the order of fileReports.
RECURSIVE matchedFiles(_, _, _, _)
matchedFiles(filter, fileReports, config, n) ==
    IF n > Len(fileReports) THEN <<>>
    ELSE (IF filterMatches(filter, fileReports[n], config)
          THEN <<[path  |-> fileReports[n].path,
                  count |-> filterCount(filter, fileReports[n])]>>
          ELSE <<>>)
         \o matchedFiles(filter, fileReports, config, n + 1)

\* Sum of the field named key over a sequence of records.
RECURSIVE sumField(_, _)
sumField(items, key) ==
    IF items = <<>> THEN 0 ELSE Head(items)[key] + sumField(Tail(items), key)

\* Lines 394-464.  The description of a quickWins phase is made of the
\* number of matched files and the threshold.
buildPhase_countsListedFiles(phaseConfig, fileReports, config) ==
    LET matched == matchedFiles(phaseConfig.filter, fileReports, config, 1)
        sorted == sortDescending(matched, <<>>, "count")
        limited == slice0(sorted, config.roadmap.maxFilesPerPhase)
    IN  IF Len(matched) = 0 THEN Null
        ELSE [id              |-> phaseConfig.id,
              description     |->
                  IF phaseConfig.filter.type = "quickWins"
                  THEN <<Len(matched), config.roadmap.quickWinThreshold>>
                  ELSE phaseConfig.description,
              filesCount      |-> Len(limited),
              violationsCount |-> sumField(limited, "count"),
              files           |-> limited]

buildPhase(phaseConfig, fileReports, config) ==
    LET matched == matchedFiles(phaseConfig.filter, fileReports, config, 1)
        sorted == sortDescending(matched, <<>>, "count")
    IN  IF Len(matched) = 0 THEN Null
        ELSE [id              |-> phaseConfig.id,
              description     |->
                  IF phaseConfig.filter.type = "quickWins"
                  THEN <<Len(matched), config.roadmap.quickWinThreshold>>
                  ELSE phaseConfig.description,
              filesCount      |-> Len(matched),
              violationsCount |-> sumField(matched, "count"),
              files           |-> slice0(sorted, config.roadmap.maxFilesPerPhase)]

\* Lines 523-527: the phases built from the n-th phase of the configuration on.
RECURSIVE buildPhases_emitsEmpty(_, _, _, _)
buildPhases_emitsEmpty(phases, fileReports, config, n) ==
    IF n > Len(phases) THEN <<>>
    ELSE LET phase == buildPhase(phases[n], fileReports, config)
         IN  (IF phase = Null
              THEN <<[id |-> phases[n].id, description |-> phases[n].description,
                      filesCount |-> 0, violationsCount |-> 0, files |-> <<>>]>>
              ELSE <<phase>>)
             \o buildPhases_emitsEmpty(phases, fileReports, config, n + 1)

RECURSIVE buildPhases(_, _, _, _)
buildPhases(phases, fileReports, config, n) ==
    IF n > Len(phases) THEN <<>>
    ELSE LET phase == buildPhase(phases[n], fileReports, config)
         IN  (IF phase = Null THEN <<>> ELSE <<phase>>)
             \o buildPhases(phases, fileReports, config, n + 1)

\* directoryOf without Math.min(..., 3): the whole directory of the path.
directoryOf_untruncated(path) ==
    LET slashes == {i \in 1..Len(path) : path[i] = "/"}
        depth == Cardinality(slashes)
        cut == CHOOSE i \in slashes :
                   Cardinality({j \in slashes : j <= i}) = depth
    IN  IF depth = 0 THEN <<>> ELSE SubSeq(path, 1, cut - 1)

\* Lines 470-472: parts.slice(0, Math.min(parts.length - 1, 3)).join("/"),
\* the pieces of the path before its depth-th "/".
directoryOf(path) ==
    LET slashes == {i \in 1..Len(path) : path[i] = "/"}
        depth == Min(Cardinality(slashes), 3)
        cut == CHOOSE i \in slashes :
                   Cardinality({j \in slashes : j <= i}) = depth
    IN  IF depth = 0 THEN <<>> ELSE SubSeq(path, 1, cut - 1)

\* Math.round((n / d) * 10000) / 100, in hundredths of a percent.
percentOf(n, d) == (20000 * n + d) \div (2 * d)

\* Lines 469-477: the keys of dirMap in insertion order.
RECURSIVE directoryKeys(_, _, _)
directoryKeys(fileReports, n, acc) ==
    IF n > Len(fileReports) THEN acc
    ELSE LET dir == directoryOf(fileReports[n].path)
         IN  directoryKeys(fileReports, n + 1,
                 IF dir \in SeqToSet(acc) THEN acc ELSE Append(acc, dir))

\* Lines 484-505: the DirectorySummary of one directory.
directorySummary(dir, fileReports, config) ==
    LET inDir(f) == directoryOf(f.path) = dir
        withV(f) == inDir(f) /\ f.totalViolations > 0
        allFiles == Len(SelectSeq(fileReports, inDir))
        filesWithV == SelectSeq(fileReports, withV)
    IN  [path                |-> dir,
         totalFiles          |-> allFiles,
         filesWithViolations |-> Len(filesWithV),
         totalViolations     |-> sumField(filesWithV, "totalViolations"),
         coveragePercent     |->
             IF allFiles > 0
             THEN percentOf(allFiles - Len(filesWithV), allFiles)
             ELSE 10000,
         categories          |->
             [key \in EnabledKeys(config) |->
                 SumOver(1..Len(filesWithV),
                         [x \in 1..Len(filesWithV) |->
                             categoryCount(filesWithV[x], key)])]]

\* Lines 466-508
buildDirectories(fileReports, config) ==
    LET keys == directoryKeys(fileReports, 1, <<>>)
        withViolations(d) == d.totalViolations > 0
    IN  sortDescending(
            SelectSeq([k \in 1..Len(keys) |->
                          directorySummary(keys[k], fileReports, config)],
                      withViolations),
            <<>>, "totalViolations")

\* .sort((a, b) => a.violations - b.violations): stable.
RECURSIVE insertAscending(_, _, _)
insertAscending(sorted, x, key) ==
    IF sorted = <<>> THEN <<x>>
    ELSE IF Head(sorted)[key] <= x[key]
         THEN <<Head(sorted)>> \o insertAscending(Tail(sorted), x, key)
         ELSE <<x>> \o sorted

RECURSIVE sortAscending(_, _, _)
sortAscending(items, acc, key) ==
    IF items = <<>> THEN acc
    ELSE sortAscending(Tail(items), insertAscending(acc, Head(items), key), key)

\* Lines 533-537
quickWinsOf(fileReports, config) ==
    LET isQuickWin(f) ==
            /\ f.totalViolations > 0
            /\ f.totalViolations <= config.roadmap.quickWinThreshold
        qw == SelectSeq(fileReports, isQuickWin)
    IN  sortAscending([n \in 1..Len(qw) |->
                          [path |-> qw[n].path, violations |-> qw[n].totalViolations]],
                      <<>>, "violations")

\* Lines 514-540
buildRoadmap(fileReports, config) ==
    IF ~config.roadmap.enabled
    THEN [phases |-> <<>>, directories |-> <<>>, quickWins |-> <<>>]
    ELSE [phases      |-> buildPhases(config.roadmap.phases, fileReports, config, 1),
          directories |-> buildDirectories(fileReports, config),
          quickWins   |-> quickWinsOf(fileReports, config)]

(* buildRoadmap on the reports of a scan (SpecRoadmap) *)

\* The texts scanned: clean, one colour, a colour and a font, two colours and
\* a font, four colours, a flag only.
RoadmapTexts ==
    {<<>>, <<"a">>, <<"a", "b">>, <<"a", "a", "b">>, <<"a", "a", "a", "a">>,
     <<"@">>}

\* The path of the n-th file scanned.
RoadmapPath(n) ==
    <<IF n % 2 = 1 THEN "ui" ELSE "app", "/",
      <<"a", "b", "c", "d", "e", "f">>[n], ".tsx">>

\* The path of the n-th file scanned, in a project with nested directories:
\* src/ui/x/y/a.tsx, src/ui/x/z/b.tsx, src/ui/c.tsx, and files at the root.
RoadmapDeepPath(n) ==
    CASE n = 1 -> <<"src", "/", "ui", "/", "x", "/", "y", "/", "a", ".tsx">>
      [] n = 2 -> <<"src", "/", "ui", "/", "x", "/", "z", "/", "b", ".tsx">>
      [] n = 3 -> <<"src", "/", "ui", "/", "c", ".tsx">>
      [] OTHER -> <<<<"a", "b", "c", "d", "e", "f">>[n], ".tsx">>

RoadmapPhases ==
    <<[id |-> "flags",  description |-> "d", filter |-> Filter("flags", <<>>, "")],
      [id |-> "ui",     description |-> "d",
       filter |-> Filter("directory", <<"ui", "/">>, "")],
      [id |-> "colors", description |-> "d",
       filter |-> Filter("category", <<>>, "colors")],
      [id |-> "quick",  description |-> "d", filter |-> Filter("quickWins", <<>>, "")],
      [id |-> "all",    description |-> "d", filter |-> Filter("all", <<>>, "")]>>

RoadmapConfigs ==
    {[violations |->
          <<[key |-> "colors", enabled |-> TRUE, pattern |-> Pattern({"a"}),
             deduplicateByLine |-> FALSE],
            [key |-> "typography", enabled |-> TRUE, pattern |-> Pattern({"b"}),
             deduplicateByLine |-> FALSE]>>,
      flags |-> [migrateSimple |-> Pattern({}), migrateComplex |-> Pattern({}),
                 todo |-> Pattern({"@"})],
      roadmap |-> [enabled |-> e, maxFilesPerPhase |-> m,
                   quickWinThreshold |-> t, phases |-> p]] :
        e \in BOOLEAN, m \in {1, 2}, t \in {1, 3},
        p \in {RoadmapPhases, reverseSeq(RoadmapPhases)}}

RoadmapIdle ==
    /\ p_pc = "idle" /\ p_fileReports = <<>> /\ p_config = <<>>
    /\ p_roadmap = NoReport

\* fileReports is what scan returns for the files: one FileReport each.
RoadmapInit ==
    /\ p_pc = "init"
    /\ p_config \in RoadmapConfigs
    /\ \E k \in 0..MaxRoadmapFiles : \E texts \in [1..k -> RoadmapTexts] :
          \E nested \in BOOLEAN :
             p_fileReports =
                 [n \in 1..k |->
                     scanFileContent(texts[n],
                                     IF nested THEN RoadmapDeepPath(n)
                                     ELSE RoadmapPath(n),
                                     p_config)]
    /\ p_roadmap = NoReport

\* buildRoadmap with the roadmap enabled.
BuildRoadmap ==
    /\ p_pc = "init"
    /\ p_config.roadmap.enabled
    /\ p_roadmap' = buildRoadmap(p_fileReports, p_config)
    /\ p_pc' = "returned"
    /\ UNCHANGED <<p_fileReports, p_config>>
    /\ UNCHANGED notRoadmapVars

\* buildRoadmap with the roadmap disabled (lines 518-520).
BuildRoadmapDisabled ==
    /\ p_pc = "init"
    /\ ~p_config.roadmap.enabled
    /\ p_roadmap' = buildRoadmap(p_fileReports, p_config)
    /\ p_pc' = "returned"
    /\ UNCHANGED <<p_fileReports, p_config>>
    /\ UNCHANGED notRoadmapVars

-----------------------------------------------------------------------------
(* analyzeComponents: src/src/component-analyzer.ts, lines 210-326 *)

\* Lines 216-235: the summary returned when the analysis is disabled.
DisabledSummary ==
    [totalComponents |-> 0, byLocation |-> <<>>, usesCVA |-> 0, usesRadix |-> 0,
     hasClassName |-> 0, hasAsChild |-> 0, usesCompoundVariants |-> 0,
     correctApiNaming |-> 0, correctSizeValues |-> 0, avgComplianceScore |-> 0,
     compliantCount |-> 0, avgTokenScore |-> 10000, tokenCompliantCount |-> 0]

\* Lines 242-245 and 259: reportMap.get(relativePath), the last FileReport
\* set for the path, or Null.
reportFor(fileReports, relativePath) ==
    LET found == {n \in 1..Len(fileReports) : fileReports[n].path = relativePath}
    IN  IF found = {} THEN Null
        ELSE fileReports[CHOOSE n \in found : \A k \in found : k <= n]

\* tokenCoverageOf with one violating line for each violation.
tokenCoverageOf_countsViolations(content, fr) ==
    LET totalLines == IF Len(content) = 0 THEN 1 ELSE Len(content)
    IN  IF fr = Null
        THEN [score |-> 10000, totalLines |-> totalLines, violationLines |-> 0,
              violations |-> <<>>, totalViolations |-> 0]
        ELSE LET violationLines == fr.totalViolations
             IN  [score |-> percentOf(totalLines - violationLines, totalLines),
                  totalLines |-> totalLines,
                  violationLines |-> violationLines,
                  violations |-> [k \in DOMAIN fr.violations |->
                                     Len(fr.violations[k])],
                  totalViolations |-> fr.totalViolations]

\* Lines 260-289.  content.split("\n").length is 1 for the empty text.
\* Scores are in hundredths of a percent.
tokenCoverageOf(content, fr) ==
    LET totalLines == IF Len(content) = 0 THEN 1 ELSE Len(content)
    IN  IF fr = Null
        THEN [score |-> 10000, totalLines |-> totalLines, violationLines |-> 0,
              violations |-> <<>>, totalViolations |-> 0]
        ELSE LET violationLineSet ==
                     UNION {{fr.violations[k][n].line :
                                n \in 1..Len(fr.violations[k])} :
                            k \in DOMAIN fr.violations}
                 violationLines == Cardinality(violationLineSet)
             IN  [score |-> percentOf(totalLines - violationLines, totalLines),
                  totalLines |-> totalLines,
                  violationLines |-> violationLines,
                  violations |-> [k \in DOMAIN fr.violations |->
                                     Len(fr.violations[k])],
                  totalViolations |-> fr.totalViolations]

\* Lines 247-292: the reports pushed for the entries of fileContents from the
\* n-th on.
RECURSIVE componentsFrom(_, _, _, _, _)
componentsFrom(fileReports, fileContents, scanDir, apiConfig, n) ==
    IF n > Len(fileContents) THEN <<>>
    ELSE LET filePath == fileContents[n].fp
             content == fileContents[n].content
             relativePath == relative(scanDir, filePath)
             isInComponentDir ==
                 \E d \in 1..Len(apiConfig.directories) :
                     startsWith(relativePath, apiConfig.directories[d])
             report == analyzeComponent(content, relativePath, apiConfig)
             rest == componentsFrom(fileReports, fileContents, scanDir,
                                    apiConfig, n + 1)
         IN  IF ~isInComponentDir THEN rest
             ELSE IF ~endsWith(filePath.rel, <<".tsx">>) THEN rest
             ELSE IF report = Null THEN rest
             ELSE <<[report EXCEPT !.tokenCoverage =
                        tokenCoverageOf(content,
                                        reportFor(fileReports, relativePath))]>>
                  \o rest

\* Math.round(sum / n) for n > 0
roundedMean(sum, n) == (2 * sum + n) \div (2 * n)

\* Lines 298-323
summaryOf(components, apiConfig) ==
    LET count(Ok(_)) == Cardinality({n \in 1..Len(components) : Ok(components[n])})
        forbiddenProps == SeqToSet(apiConfig.api.forbiddenProps)
        forbiddenSizes == SeqToSet(apiConfig.api.forbiddenSizes)
        scores == [n \in 1..Len(components) |->
                      [compliance |-> components[n].complianceScore,
                       token |-> components[n].tokenCoverage.score]]
    IN  [totalComponents |-> Len(components),
         byLocation |->
             [loc \in {components[n].location : n \in 1..Len(components)} |->
                 Cardinality({n \in 1..Len(components) :
                                 components[n].location = loc})],
         usesCVA |-> count(LAMBDA c : c.usesCVA),
         usesRadix |-> count(LAMBDA c : c.usesRadix),
         hasClassName |-> count(LAMBDA c : c.hasClassName),
         hasAsChild |-> count(LAMBDA c : c.hasAsChild),
         usesCompoundVariants |-> count(LAMBDA c : c.usesCompoundVariants),
         correctApiNaming |->
             count(LAMBDA c : SeqToSet(c.variantProps) \cap forbiddenProps = {}),
         correctSizeValues |->
             count(LAMBDA c : SeqToSet(c.sizeValues) \cap forbiddenSizes = {}),
         avgComplianceScore |->
             IF Len(components) > 0
             THEN roundedMean(sumField(scores, "compliance"), Len(components))
             ELSE 0,
         compliantCount |-> count(LAMBDA c : c.complianceScore >= 80),
         avgTokenScore |->
             IF Len(components) > 0
             THEN roundedMean(sumField(scores, "token"), Len(components))
             ELSE 10000,
         tokenCompliantCount |->
             count(LAMBDA c : c.tokenCoverage.totalViolations = 0)]

\* Lines 210-326
analyzeComponents(fileReports, fileContents, scanDir, config) ==
    IF ~config.componentAnalysis.enabled
    THEN [summary |-> DisabledSummary, components |-> <<>>]
    ELSE LET apiConfig == config.componentAnalysis
             components ==
                 sortAscending(componentsFrom(fileReports, fileContents, scanDir,
                                              apiConfig, 1),
                               <<>>, "complianceScore")
         IN  [summary |-> summaryOf(components, apiConfig),
              components |-> components]

(* analyzeComponents on a few files (SpecComponents) *)

ComponentsPaths ==
    {<<"ui", "/", "Button", ".tsx">>,
     <<"ui", "/", "forms", "/", "Input", ".tsx">>,
     <<"legacy", "/", "Card", ".tsx">>,
     <<"ui", "/", "index", ".tsx">>,
     <<"ui", "/", "theme", ".ts">>,
     <<"other", "/", "Menu", ".tsx">>,
     <<"lib", "/", "utils", ".tsx">>}

\* Files with and without an export, of no line (one empty line for split),
\* one, three and four lines.
ComponentsContents ==
    {<<>>,
     <<WordLine("className")>>,
     <<ExportLine("Button"), WordLine("className"), WordLine("asChild")>>,
     <<ExportLine("Button"), OpenLine("variants"), OpenLine("type"), CloseLine>>}

\* What scan reports for a file of this content: no violation, or two
\* colours on the first line and a font on the last.
ComponentsViolations(content) ==
    {[colors |-> <<>>, typography |-> <<>>]}
    \cup (IF Len(content) = 0 THEN {}
          ELSE {[colors |-> <<[line |-> 1], [line |-> 1]>>,
                 typography |-> <<[line |-> Len(content)]>>]})

ComponentsFiles ==
    UNION {{[content |-> content, violations |-> violations] :
               violations \in ComponentsViolations(content)} :
           content \in ComponentsContents}

FormsDir == <<"ui", "/", "forms", "/">>
OtherDir == <<"other", "/">>

\* The component directories configured: the primary one and a legacy one;
\* a directory and one inside it, in both orders; a directory named other;
\* the scan directory itself, as "".
ComponentsDirectories ==
    {[directories |-> <<PrimaryDir, LegacyDir>>, primaryDirectory |-> PrimaryDir],
     [directories |-> <<PrimaryDir, FormsDir>>, primaryDirectory |-> FormsDir],
     [directories |-> <<FormsDir, PrimaryDir>>, primaryDirectory |-> FormsDir],
     [directories |-> <<OtherDir, LegacyDir>>, primaryDirectory |-> LegacyDir],
     [directories |-> <<PrimaryDir, <<>>>>, primaryDirectory |-> PrimaryDir]}

ComponentsConfigs ==
    {[scanDir |-> "src",
      componentAnalysis |->
          [enabled |-> e,
           directories |-> dirs.directories,
           primaryDirectory |-> dirs.primaryDirectory,
           api |-> [requireCVA |-> TRUE,
                    expectedProps |-> <<"variant", "size">>,
                    forbiddenProps |-> <<"type">>,
                    expectedSizes |-> <<"small", "medium", "large">>,
                    forbiddenSizes |-> <<"sm">>,
                    legacyVariantValues |-> <<"sm">>],
           scoring |-> DefaultScoring]] :
        e \in BOOLEAN, dirs \in ComponentsDirectories}

ComponentsIdle ==
    /\ a_pc = "idle" /\ a_fileReports = <<>> /\ a_fileContents = <<>>
    /\ a_config = <<>> /\ a_result = NoReport

\* fileContents holds the files read, each path once, and fileReports one
\* FileReport for each of them, or for each but one when the caller passes
\* the reports of fewer files.
ComponentsInit ==
    /\ a_pc = "init"
    /\ a_config \in ComponentsConfigs
    /\ a_config.componentAnalysis.enabled
           \/ a_config.componentAnalysis.directories = <<PrimaryDir, LegacyDir>>
    /\ \E k \in 0..MaxComponentFiles :
          \E paths \in [1..k -> ComponentsPaths],
             files \in [1..k -> ComponentsFiles],
             unreported \in 0..k :
              /\ \A x, y \in 1..k : x # y => paths[x] # paths[y]
              /\ a_fileContents =
                     [n \in 1..k |-> [fp |-> join(a_config.scanDir, paths[n]),
                                      content |-> files[n].content]]
              /\ a_fileReports =
                     LET reports ==
                             [n \in 1..k |->
                                 [path |-> paths[n],
                                  violations |-> files[n].violations,
                                  totalViolations |->
                                      Len(files[n].violations.colors)
                                      + Len(files[n].violations.typography)]]
                         reported(fr) ==
                             unreported = 0 \/ fr.path # paths[unreported]
                     IN  SelectSeq(reports, reported)
    /\ a_result = NoReport

\* analyzeComponents with the analysis enabled.
AnalyzeComponents ==
    /\ a_pc = "init"
    /\ a_config.componentAnalysis.enabled
    /\ a_result' = analyzeComponents(a_fileReports, a_fileContents,
                                     a_config.scanDir, a_config)
    /\ a_pc' = "returned"
    /\ UNCHANGED <<a_fileReports, a_fileContents, a_config>>
    /\ UNCHANGED notComponentsVars

\* analyzeComponents with the analysis disabled (lines 216-235).
AnalyzeComponentsDisabled ==
    /\ a_pc = "init"
    /\ ~a_config.componentAnalysis.enabled
    /\ a_result' = analyzeComponents(a_fileReports, a_fileContents,
                                     a_config.scanDir, a_config)
    /\ a_pc' = "returned"
    /\ UNCHANGED <<a_fileReports, a_fileContents, a_config>>
    /\ UNCHANGED notComponentsVars

-----------------------------------------------------------------------------
(* deepMerge: src/src/config.ts, lines 246-270 *)

\* JavaScript values: numbers, null, undefined, arrays and plain objects.  The
\* fields of an object are a function from its own keys to values; a key may
\* be present with the value undefined.  A value is the pair of its kind and
\* its content.
NumV(n)    == <<"number", n>>
NullV      == <<"null", 0>>
UndefinedV == <<"undefined", 0>>
ArrV(a)    == <<"array", a>>
ObjV(f)    == <<"object", f>>
kindOf(x)  == x[1]
fieldsOf(obj) == obj[2]

\* Lines 255-261: the test that sends a key to the recursive merge.  typeof
\* is "object" for null, arrays and objects.
bothPlainObjects(sourceVal, targetVal) ==
    /\ kindOf(sourceVal) # "null"
    /\ kindOf(sourceVal) # "undefined"
    /\ kindOf(sourceVal) \in {"null", "array", "object"}
    /\ kindOf(sourceVal) # "array"
    /\ kindOf(targetVal) \in {"null", "array", "object"}
    /\ kindOf(targetVal) # "array"
    /\ kindOf(targetVal) # "null"

\* Lines 250-269.  result starts as a copy of target's own keys; a key of
\* source is set in it unless its value is undefined.
deepMerge_shallow(target, source) ==
    LET t == fieldsOf(target)
        s == fieldsOf(source)
        set == {key \in DOMAIN s : kindOf(s[key]) # "undefined"}
    IN  ObjV([key \in DOMAIN t \cup set |->
                 IF key \notin set THEN t[key] ELSE s[key]])

RECURSIVE deepMerge(_, _)
deepMerge(target, source) ==
    LET t == fieldsOf(target)
        s == fieldsOf(source)
        targetVal(key) == IF key \in DOMAIN t THEN t[key] ELSE UndefinedV
        set == {key \in DOMAIN s : kindOf(s[key]) # "undefined"}
    IN  ObjV([key \in DOMAIN t \cup set |->
                 IF key \notin set THEN t[key]
                 ELSE IF bothPlainObjects(s[key], targetVal(key))
                      THEN deepMerge(targetVal(key), s[key])
                 ELSE s[key]])

(* deepMerge on small objects (SpecMerge) *)

\* The objects with keys among keys and values among values.
ObjectsOver(keys, values) ==
    {ObjV(f) : f \in UNION {[D -> values] : D \in SUBSET keys}}

MergeArrays == {ArrV(a) : a \in UNION {[1..k -> {1, 2}] : k \in 0..MaxMergeArray}}

MergeScalars == {NumV(1), NumV(2), NullV, UndefinedV}

\* Objects of two levels: key "a" may hold an object, key "b" may not.
MergeObjects ==
    LET inner == ObjectsOver({"c", "d"}, {NumV(1), NumV(2), UndefinedV})
        outer == ObjectsOver({"a", "b"}, MergeScalars \cup MergeArrays \cup inner)
    IN  {o \in outer :
            "b" \in DOMAIN fieldsOf(o) => kindOf(fieldsOf(o)["b"]) # "object"}

MergeIdle ==
    /\ g_pc = "idle" /\ g_target = <<>> /\ g_source = <<>> /\ g_result = NoReport

MergeInit ==
    /\ g_pc = "init"
    /\ g_target \in MergeObjects
    /\ g_source \in MergeObjects
    /\ g_result = NoReport

\* deepMerge(target, source)
DeepMerge ==
    /\ g_pc = "init"
    /\ g_result' = deepMerge(g_target, g_source)
    /\ g_pc' = "returned"
    /\ UNCHANGED <<g_target, g_source>>
    /\ UNCHANGED notMergeVars

-----------------------------------------------------------------------------
(* init: src/unnamed/part_005, lines 490-796 *)

BoolV(b) == <<"boolean", b>>
StrV(s)  == <<"string", s>>

\* A configuration, as far as init reads it.
ConfigOf(fields) == ObjV([key \in {"componentAnalysis"} |-> ObjV(fields)])
EnabledConfig(b) == ConfigOf([key \in {"enabled"} |-> BoolV(b)])

\* src/src/config.ts:100-235, DEFAULT_CONFIG
DEFAULT_CONFIG ==
    ObjV([key \in {"scanDir", "componentAnalysis"} |->
             IF key = "scanDir" THEN StrV("src")
             ELSE ObjV([k \in {"enabled", "primaryDirectory"} |->
                           IF k = "enabled" THEN BoolV(FALSE) ELSE StrV("")])])

\* Lines 308-360: the wizard's configuration always enables the analysis.
buildConfigFromAnswers(answers) ==
    ObjV([key \in {"scanDir", "componentAnalysis"} |->
             IF key = "scanDir" THEN StrV(answers.scanDir)
             ELSE ObjV([k \in {"enabled"} |-> BoolV(TRUE)])])

\* The files of the project directory: a file is absent or has a content,
\* which is a tuple that starts with what the content is.
Absent == <<"absent">>
ConfigJs  == "ds-coverage.config.js"
ConfigMjs == "ds-coverage.config.mjs"
Gitignore == ".gitignore"
ReportJson == "ds-coverage-report.json"
DashboardHtml == "ds-coverage-dashboard.html"
ComplianceRuleFile == ".cursor/rules/design-system-compliance.mdc"
ComponentRuleFile  == ".cursor/rules/ui-component-creation.mdc"
CursorSkillFile == ".cursor/skills/design-system-compliance/SKILL.md"
ClaudeSkillFile == ".claude/skills/design-system-compliance/SKILL.md"
AgentsSkillFile == ".agents/skills/design-system-compliance/SKILL.md"

GuidelineFiles ==
    {ComplianceRuleFile, ComponentRuleFile, CursorSkillFile, ClaudeSkillFile,
     AgentsSkillFile}

\* Lines 530-546 and src/src/config.ts:238-244, the names access is tried on.
CONFIG_FILE_NAMES == <<ConfigJs, ConfigMjs>>

ALL_TARGETS == <<"cursor", "claude", "agents">>

GITIGNORE_ENTRIES == {ReportJson, DashboardHtml}

\* serializeConfig and the import of the file again
serializeConfig(config) == <<"config", config>>

\* The templates: each content is made from the configuration.
generateComplianceRule(config) == <<"compliance-rule", config>>
generateComponentRule(config)  == <<"component-rule", config>>
generateSkill(config)          == <<"skill", config>>

\* Lines 539-546
configExists(disk) ==
    \E n \in 1..Len(CONFIG_FILE_NAMES) : disk[CONFIG_FILE_NAMES[n]] # Absent

\* src/src/config.ts:276-311, with no configPath: the first file that
\* exists is imported and merged over the defaults.
firstConfigFile(disk) ==
    CONFIG_FILE_NAMES[CHOOSE n \in 1..Len(CONFIG_FILE_NAMES) :
        /\ disk[CONFIG_FILE_NAMES[n]] # Absent
        /\ \A k \in 1..(n - 1) : disk[CONFIG_FILE_NAMES[k]] = Absent]

loadConfigThrows(disk) ==
    configExists(disk) /\ disk[firstConfigFile(disk)][1] # "config"

loadConfig(disk) ==
    IF configExists(disk)
    THEN deepMerge(DEFAULT_CONFIG, disk[firstConfigFile(disk)][2])
    ELSE DEFAULT_CONFIG

\* Lines 570-572 and 575-577: options.config is merged over the file's.
resolvedConfig(disk, options) ==
    IF options.config # UndefinedV
    THEN deepMerge(loadConfig(disk), options.config)
    ELSE loadConfig(disk)

componentAnalysisEnabled(config) ==
    fieldsOf(fieldsOf(config)["componentAnalysis"])["enabled"] = BoolV(TRUE)

GeneratedFile(relativePath, content, skipped) ==
    [relativePath |-> relativePath, content |-> content, skipped |-> skipped]

\* Lines 593-631: the files pushed for the targets from the n-th on.
RECURSIVE filesToGenerate(_, _, _)
filesToGenerate(targets, config, n) ==
    IF n > Len(targets) THEN <<>>
    ELSE LET file(relativePath, content) ==
                 [relativePath |-> relativePath, content |-> content]
             skill == generateSkill(config)
         IN  (CASE targets[n] = "cursor" ->
                       <<file(ComplianceRuleFile, generateComplianceRule(config))>>
                       \o (IF componentAnalysisEnabled(config)
                           THEN <<file(ComponentRuleFile,
                                       generateComponentRule(config))>>
                           ELSE <<>>)
                       \o <<file(CursorSkillFile, skill)>>
                [] targets[n] = "claude" -> <<file(ClaudeSkillFile, skill)>>
                [] targets[n] = "agents" -> <<file(AgentsSkillFile, skill)>>
                [] OTHER -> <<>>)
             \o filesToGenerate(targets, config, n + 1)

\* Lines 636-681: the disk and the results after the files from the n-th on.
RECURSIVE writeFiles_overwrites(_, _, _, _, _)
writeFiles_overwrites(files, n, disk, results, options) ==
    IF n > Len(files) THEN [disk |-> disk, results |-> results]
    ELSE writeFiles_overwrites(files, n + 1,
             IF options.dryRun THEN disk
             ELSE [disk EXCEPT ![files[n].relativePath] = files[n].content],
             Append(results, GeneratedFile(files[n].relativePath,
                                           files[n].content, FALSE)),
             options)

RECURSIVE writeFiles(_, _, _, _, _)
writeFiles(files, n, disk, results, options) ==
    IF n > Len(files) THEN [disk |-> disk, results |-> results]
    ELSE LET file == files[n]
             exists == disk[file.relativePath] # Absent
         IN  IF exists /\ ~options.force
             THEN writeFiles(files, n + 1, disk,
                      Append(results, GeneratedFile(file.relativePath,
                                                    file.content, TRUE)),
                      options)
             ELSE IF options.dryRun
             THEN writeFiles(files, n + 1, disk,
                      Append(results, GeneratedFile(file.relativePath,
                                                    file.content, FALSE)),
                      options)
             ELSE writeFiles(files, n + 1,
                      [disk EXCEPT ![file.relativePath] = file.content],
                      Append(results, GeneratedFile(file.relativePath,
                                                    file.content, FALSE)),
                      options)

\* Lines 772-795: the entries .gitignore lacks are added to it.
updateGitignore(disk) ==
    IF disk[Gitignore] = Absent THEN disk
    ELSE IF GITIGNORE_ENTRIES \subseteq disk[Gitignore][2] THEN disk
    ELSE [disk EXCEPT ![Gitignore] =
             <<"gitignore", disk[Gitignore][2] \cup GITIGNORE_ENTRIES>>]

\* Lines 579-700: everything after the configuration is resolved.
generateGuidelines(config, disk, options) ==
    LET targets == IF options.targets = UndefinedV THEN ALL_TARGETS
                   ELSE options.targets
        written == writeFiles(filesToGenerate(targets, config, 1), 1, disk,
                              <<>>, options)
        created == SelectSeq(written.results, LAMBDA r : ~r.skipped)
    IN  [disk |-> IF ~options.dryRun /\ Len(created) > 0
                  THEN updateGitignore(written.disk) ELSE written.disk,
         results |-> written.results]

\* Lines 703-719: run writes the report and the dashboard of the scan.
runWrites(disk, config) ==
    [disk EXCEPT ![ReportJson] = <<"report", config>>,
                 ![DashboardHtml] = <<"dashboard", config>>]

(* init on a project directory (SpecInit) *)

InitDisks ==
    {[name \in GuidelineFiles \cup {ConfigJs, ConfigMjs, Gitignore, ReportJson,
                                    DashboardHtml} |->
         CASE name \in GuidelineFiles ->
                  IF name \in existing THEN <<"old">> ELSE Absent
           [] name = ConfigJs -> config
           [] name = ConfigMjs -> Absent
           [] name = Gitignore -> ignore
           [] OTHER -> outputs] :
        existing \in SUBSET GuidelineFiles,
        config \in {Absent, <<"broken">>, serializeConfig(ObjV(<<>>)),
                    serializeConfig(EnabledConfig(TRUE))},
        ignore \in {Absent, <<"gitignore", {}>>, <<"gitignore", GITIGNORE_ENTRIES>>},
        outputs \in {Absent, <<"old">>}}

InitOptions ==
    {[noInteractive |-> n, dryRun |-> d, force |-> f, targets |-> t,
      config |-> c] :
        n \in BOOLEAN, d \in BOOLEAN, f \in BOOLEAN,
        t \in {UndefinedV, <<>>, <<"cursor">>, <<"claude", "agents">>,
               <<"agents", "cursor">>, <<"cursor", "cursor">>},
        c \in {UndefinedV, EnabledConfig(TRUE), EnabledConfig(FALSE)}}

InitIdle ==
    /\ i_pc = "idle" /\ i_options = <<>> /\ i_before = <<>> /\ i_disk = <<>>
    /\ i_config = <<>> /\ i_results = <<>>

InitInit ==
    /\ i_pc = "init"
    /\ i_options \in InitOptions
    /\ i_before \in InitDisks
    /\ i_disk = i_before
    /\ i_config = <<>>
    /\ i_results = <<>>

\* init without the wizard: a configuration file exists, or noInteractive.
InitGenerates ==
    /\ i_pc = "init"
    /\ i_options.noInteractive \/ configExists(i_disk)
    /\ ~loadConfigThrows(i_disk)
    /\ LET config == resolvedConfig(i_disk, i_options)
           done == generateGuidelines(config, i_disk, i_options)
       IN  /\ i_config' = config
           /\ i_disk' = done.disk
           /\ i_results' = done.results
    /\ i_pc' = "returned"
    /\ UNCHANGED <<i_options, i_before>>
    /\ UNCHANGED notInitVars

\* init with the wizard: its configuration is written unless dryRun, the
\* guidelines are generated, then run scans the project unless dryRun; a
\* scan that fails is reported and writes nothing.
InitRunsWizard ==
    /\ i_pc = "init"
    /\ ~i_options.noInteractive /\ ~configExists(i_disk)
    /\ \E answers \in [scanDir : {"src", "app"}], scanned \in BOOLEAN :
          LET wizardConfig == buildConfigFromAnswers(answers)
              saved == IF i_options.dryRun THEN i_disk
                       ELSE [i_disk EXCEPT ![ConfigMjs] =
                                serializeConfig(wizardConfig)]
              config == resolvedConfig(saved, i_options)
              done == generateGuidelines(config, saved, i_options)
          IN  /\ i_config' = config
              /\ i_disk' = IF ~i_options.dryRun /\ scanned
                           THEN runWrites(done.disk, loadConfig(done.disk))
                           ELSE done.disk
              /\ i_results' = done.results
    /\ i_pc' = "returned"
    /\ UNCHANGED <<i_options, i_before>>
    /\ UNCHANGED notInitVars

\* loadConfig throws on a configuration file that cannot be imported, and
\* init with it: nothing was written.
InitThrows ==
    /\ i_pc = "init"
    /\ loadConfigThrows(i_disk)
    /\ i_pc' = "threw"
    /\ UNCHANGED <<i_options, i_before, i_disk, i_config, i_results>>
    /\ UNCHANGED notInitVars

-----------------------------------------------------------------------------
(* Discovery of migration mappings: src/unnamed/part_008 *)

\* Lines 18-102: what is known of each shadcn/ui component, by its name in
\* lower case.
SHADCN_COMPONENT_MAP ==
    [w \in {"alert", "badge", "button", "card", "dialog", "input", "label",
            "select", "separator", "tabs", "table", "textarea", "toast",
            "progress", "skeleton", "anchor"} |->
        [complexity |-> IF w \in {"dialog", "select", "tabs", "table", "toast"}
                        THEN "moderate" ELSE "simple"]]

\* Lines 105-133
LEGACY_HTML_TO_SHADCN ==
    [w \in {"input", "textarea", "select", "button"} |->
        [target |-> Spelling("", TRUE, <<w>>),
         complexity |-> IF w = "select" THEN "moderate" ELSE "simple"]]

\* A name of one word, which is a key of the map when spelled as the keys are.
isKeyOf(name, map, capital) ==
    /\ name.lead = "" /\ Len(name.words) = 1
    /\ name.words[1].cap = capital
    /\ name.words[1].w \in DOMAIN map

\* Lines 154-177: the tag in lower case is one of the native elements.
isNativeHtml(tag) ==
    LET lower == toLowerCase(tag)
    IN  /\ lower.lead = "" /\ Len(lower.words) = 1
        /\ lower.words[1].w \in
               {"input", "textarea", "select", "button", "form", "label", "a",
                "div", "span", "p", "ul", "ol", "li", "table", "tr", "td", "th",
                "thead", "tbody"}

\* Lines 180-183: the entry of the component whose name is this one with a
\* capital first, or Null.
getShadcnTarget(name) ==
    LET key == IF name.lead = ""
               THEN [name EXCEPT !.words[1].cap = TRUE]
               ELSE name
    IN  IF isKeyOf(key, SHADCN_COMPONENT_MAP, TRUE)
        THEN SHADCN_COMPONENT_MAP[key.words[1].w] ELSE Null

\* The items of a sequence, each once, in the order of their first place:
\* the order of a Set.
RECURSIVE inOrderOnce(_, _)
inOrderOnce(items, acc) ==
    IF items = <<>> THEN acc
    ELSE inOrderOnce(Tail(items),
                     IF Head(items) \in SeqToSet(acc) THEN acc
                     ELSE Append(acc, Head(items)))

\* The names of the tags of the lines from the n-th on, in order.
RECURSIVE tagNamesFrom(_, _)
tagNamesFrom(content, n) ==
    IF n > Len(content) THEN <<>>
    ELSE LET tags == SelectSeq(content[n], LAMBDA tok : tok.t = "tag")
         IN  [k \in 1..Len(tags) |-> tags[k].v] \o tagNamesFrom(content, n + 1)

\* Lines 139-152: the names after < or </ that are letters and digits up to
\* a space, /, > or the end, comment lines included.
discoverJsxElements(content) ==
    LET isName(name) ==
            /\ name.lead = ""
            /\ Len(name.words) = 1 \/ name.sep = ""
            /\ name \notin {Spelling("", TRUE, <<"fragment">>),
                            Spelling("", TRUE, <<"react">>), Plain("children")}
    IN  inOrderOnce(SelectSeq(tagNamesFrom(content, 1), isName), <<>>)

DiscoveredMapping(source, pattern, target, complexity) ==
    [source |-> source, sourceImportPattern |-> pattern, target |-> target,
     complexity |-> complexity]

\* Lines 218-219: the first segment of the primary directory when it is
\* "components", else the directory without its final "/".
importPatternOf(config) ==
    LET given == config.componentAnalysis.primaryDirectory
        dir == IF given = <<>> THEN <<"components", "/", "ui", "/">> ELSE given
        primaryDir == IF dir[Len(dir)] = "/" THEN SubSeq(dir, 1, Len(dir) - 1)
                      ELSE dir
    IN  IF primaryDir[1] = "components" THEN "components"
        ELSE IF Len(primaryDir) = 1 THEN primaryDir[1]
        ELSE primaryDir

\* Lines 221-239 and 274-292: the mappings pushed for the names that are
\* shadcn/ui components and were not seen before.
RECURSIVE mappingsOfNames(_, _, _)
mappingsOfNames(names, seen, importPattern) ==
    IF names = <<>> THEN [mappings |-> <<>>, seen |-> seen]
    ELSE LET name == Head(names)
             shadcn == getShadcnTarget(name)
             push == name \notin seen /\ shadcn # Null
             rest == mappingsOfNames(Tail(names),
                                     IF push THEN seen \cup {name} ELSE seen,
                                     importPattern)
         IN  [rest EXCEPT !.mappings =
                 (IF push
                  THEN <<DiscoveredMapping(name, importPattern, name,
                                           shadcn.complexity)>>
                  ELSE <<>>) \o @]

\* Lines 242-252: the native elements used, in lower case.
RECURSIVE nativeUsedFrom(_, _)
nativeUsedFrom(fileContents, n) ==
    IF n > Len(fileContents) THEN <<>>
    ELSE LET elements == discoverJsxElements(fileContents[n].content)
             lower == [k \in 1..Len(elements) |-> toLowerCase(elements[k])]
             isLegacy(tag) == isKeyOf(tag, LEGACY_HTML_TO_SHADCN, FALSE)
         IN  SelectSeq(lower, isLegacy) \o nativeUsedFrom(fileContents, n + 1)

\* Lines 267-293: the components used in the files outside the component
\* directories, from the n-th file on.  A directory is the sequence of its
\* segments, as the dir of a path is.
RECURSIVE usedOutsideFrom(_, _, _, _)
usedOutsideFrom(fileContents, scanDir, config, n) ==
    IF n > Len(fileContents) THEN <<>>
    ELSE LET relPath == relative(scanDir, fileContents[n].fp)
             directories == config.componentAnalysis.directories
             notNative(name) == ~isNativeHtml(name)
         IN  (IF \E d \in 1..Len(directories) :
                     startsWith(relPath.dir, directories[d])
              THEN <<>>
              ELSE SelectSeq(discoverJsxElements(fileContents[n].content),
                             notNative))
             \o usedOutsideFrom(fileContents, scanDir, config, n + 1)

\* String.prototype.includes("shadcn") of the name in lower case.
namesShadcn(targetDS) == targetDS \in {"shadcn/ui", "shadcn", "Shadcn UI"}

\* Lines 202-297
discoverMigrationMappings(fileContents, componentApi, scanDir, config) ==
    IF ~config.migration.enabled \/ Len(config.migration.mappings) > 0 THEN <<>>
    ELSE IF ~namesShadcn(config.migration.targetDS) THEN <<>>
    ELSE LET importPattern == importPatternOf(config)
             components == componentApi.components
             analyzed == mappingsOfNames(
                             [n \in 1..Len(components) |-> components[n].name],
                             {}, importPattern)
             nativeUsed == inOrderOnce(nativeUsedFrom(fileContents, 1), <<>>)
             native == [n \in 1..Len(nativeUsed) |->
                           LET def == LEGACY_HTML_TO_SHADCN[nativeUsed[n].words[1].w]
                           IN  DiscoveredMapping(nativeUsed[n], HTML_NATIVE_PATTERN,
                                                 def.target, def.complexity)]
             used == mappingsOfNames(
                         usedOutsideFrom(fileContents, scanDir, config, 1),
                         analyzed.seen, importPattern)
         IN  analyzed.mappings \o native \o used.mappings

-----------------------------------------------------------------------------
(* run: src/tsup.config.ts, lines 82-246 *)

\* buildCategorySummary with slice(0, 20) before the sort.
buildCategorySummary_capsBeforeSort(files, categoryKey) ==
    LET hasSome(f) == categoryCount(f, categoryKey) > 0
        filesWithViolations == SelectSeq(files, hasSome)
        counted == [n \in 1..Len(filesWithViolations) |->
                       [path |-> filesWithViolations[n].path,
                        count |-> categoryCount(filesWithViolations[n], categoryKey)]]
    IN  [totalFiles |-> Len(filesWithViolations),
         totalViolations |-> sumField(counted, "count"),
         topFiles |-> sortDescending(slice0(counted, TopFilesMax), <<>>, "count")]

\* src/unnamed/part_002:150-166
buildCategorySummary(files, categoryKey) ==
    LET hasSome(f) == categoryCount(f, categoryKey) > 0
        filesWithViolations == SelectSeq(files, hasSome)
        counted == [n \in 1..Len(filesWithViolations) |->
                       [path |-> filesWithViolations[n].path,
                        count |-> categoryCount(filesWithViolations[n], categoryKey)]]
    IN  [totalFiles |-> Len(filesWithViolations),
         totalViolations |-> sumField(counted, "count"),
         topFiles |-> slice0(sortDescending(counted, <<>>, "count"), TopFilesMax)]

\* Lines 112-137: the configuration analyzeMigration is given.
migrationConfigOf(fileContents, componentApi, scanDir, config) ==
    IF /\ config.migration.enabled
       /\ Len(config.migration.mappings) = 0
       /\ config.migration.targetDS # ""
    THEN LET discovered == discoverMigrationMappings(fileContents, componentApi,
                                                     scanDir, config)
         IN  IF Len(discovered) > 0
             THEN [config EXCEPT !.migration.mappings = discovered]
             ELSE config
    ELSE config

\* Lines 140-146, with files that have flags counted as files with
\* violations.
coveragePercentOf_flagsCount(fileReports) ==
    LET withViolations(f) == f.totalViolations > 0 \/ f.totalFlags > 0
        filesWithViolations == SelectSeq(fileReports, withViolations)
    IN  IF Len(fileReports) > 0
        THEN percentOf(Len(fileReports) - Len(filesWithViolations),
                       Len(fileReports))
        ELSE 10000

\* Lines 140-146: coveragePercent, in hundredths of a percent.
coveragePercentOf(fileReports) ==
    LET withViolations(f) == f.totalViolations > 0
        filesWithViolations == SelectSeq(fileReports, withViolations)
    IN  IF Len(fileReports) > 0
        THEN percentOf(Len(fileReports) - Len(filesWithViolations),
                       Len(fileReports))
        ELSE 10000

\* Lines 108-173: the Report made of what scan returned.
reportOf(scanned, config) ==
    LET fileReports == scanned.fileReports
        fileContents == scanned.fileContents
        scanDir == config.scanDir
        componentApi == analyzeComponents(fileReports, fileContents, scanDir, config)
        roadmap == buildRoadmap(fileReports, config)
        migration == analyzeMigration(fileContents, scanDir,
                         migrationConfigOf(fileContents, componentApi, scanDir,
                                           config))
        withViolations(f) == f.totalViolations > 0
        filesWithViolations == SelectSeq(fileReports, withViolations)
        flagCount(kind) ==
            SumOver(1..Len(fileReports),
                    [n \in 1..Len(fileReports) |-> Len(fileReports[n].flags[kind])])
        listed(f) == f.totalViolations > 0 \/ f.totalFlags > 0
    IN  [scanDir |-> scanDir,
         summary |->
             [totalFiles |-> scanned.totalFiles,
              totalFilesScanned |-> Len(fileReports),
              totalFilesWithViolations |-> Len(filesWithViolations),
              totalViolations |-> sumField(fileReports, "totalViolations"),
              totalFlags |-> sumField(fileReports, "totalFlags"),
              coveragePercent |-> coveragePercentOf(fileReports),
              categories |-> [key \in EnabledKeys(config) |->
                                 buildCategorySummary(fileReports, key)],
              flags |-> [kind \in {"migrateSimple", "migrateComplex", "todo"} |->
                            flagCount(kind)]],
         roadmap |-> roadmap,
         componentApi |-> componentApi,
         migration |-> migration,
         files |-> sortDescending(SelectSeq(fileReports, listed), <<>>,
                                  "totalViolations")]

\* Line 176: the dashboard is made from the report.
buildDashboard(report, config) == <<"dashboard", report>>

\* Lines 108-176 and 243: what run returns.
runResult(scanned, config) ==
    LET returned(report) ==
            [report |-> report, dashboardHtml |-> buildDashboard(report, config)]
    IN  returned(reportOf(scanned, config))

(* run on a scanned project (SpecRun) *)

\* The files scanned, as analyzeMigration reads their paths and as a
\* FileReport has them.
RunPaths ==
    <<[dir |-> <<"components">>, name |-> "a", ext |-> ".tsx"],
      [dir |-> <<"pages">>, name |-> "b", ext |-> ".tsx"],
      [dir |-> <<"pages">>, name |-> "c", ext |-> ".tsx"]>>

Card == Spelling("", TRUE, <<"card">>)

\* The lines explored:
\*   import { Button } from "@company/ui"
\*   <Button variant>
\*   <button>
\*   <Card>
RunLines ==
    {<<Kw("import"), Punct("{"), Ident(Button), Punct("}"), Kw("from"),
       Quote("@company/ui")>>,
     <<Tag(Button), Ident(Plain("variant"))>>,
     <<Tag(Plain("button"))>>,
     <<Tag(Card)>>}

RunContents == UNION {[1..k -> RunLines] : k \in 0..MaxRunLines}

\* What scan reports of the files, none to three of them: nothing, a todo
\* flag, or one to three violations.
RunTexts ==
    {<<>>,
     <<<<>>, <<>>>>,
     <<<<"@">>, <<"a", "a", "b">>>>,
     <<<<"a", "a", "b">>, <<>>>>,
     <<<<"a">>, <<"a", "a", "b">>, <<"@">>>>,
     <<<<>>, <<"a", "@">>, <<>>>>}

RunMigrations ==
    LET mappings == CHOOSE ms \in MigMappings :
                        \A n \in 1..Len(ms) : ms[n].complexity = "simple"
    IN  {[enabled |-> e, targetDS |-> "shadcn/ui", mappings |-> ms] :
            e \in BOOLEAN, ms \in {<<>>, mappings}}
        \cup {[enabled |-> e, targetDS |-> t, mappings |-> <<>>] :
                 e \in BOOLEAN, t \in {"", "Material UI"}}

RunConfigs ==
    {[scanDir |-> "src",
      violations |->
          <<[key |-> "colors", enabled |-> TRUE, pattern |-> Pattern({"a"}),
             deduplicateByLine |-> FALSE],
            [key |-> "typography", enabled |-> TRUE, pattern |-> Pattern({"b"}),
             deduplicateByLine |-> FALSE]>>,
      flags |-> [migrateSimple |-> Pattern({}), migrateComplex |-> Pattern({}),
                 todo |-> Pattern({"@"})],
      componentAnalysis |-> [enabled |-> FALSE,
                             directories |-> <<<<"components">>>>,
                             primaryDirectory |-> <<>>],
      roadmap |-> [enabled |-> TRUE, maxFilesPerPhase |-> 1,
                   quickWinThreshold |-> 3, phases |-> RoadmapPhases],
      migration |-> migration] : migration \in RunMigrations}

RunIdle ==
    /\ r_pc = "idle" /\ r_options = <<>> /\ r_config = <<>> /\ r_scanned = <<>>
    /\ r_disk = <<>> /\ r_result = NoReport

\* r_config is the configuration after loadConfig and the merge of
\* options.config (lines 86-89); r_scanned is what scan resolves with, or
\* Null when it rejects.
RunInit ==
    /\ r_pc = "init"
    /\ r_options \in [dryRun : BOOLEAN]
    /\ r_config \in RunConfigs
    /\ \/ r_scanned = Null
       \/ \E contents \in [1..2 -> RunContents], texts \in RunTexts :
              r_scanned =
                  [fileReports |->
                       [n \in 1..Len(texts) |->
                           scanFileContent(texts[n], RunPaths[n].dir
                                           \o <<"/", RunPaths[n].name,
                                                RunPaths[n].ext>>,
                                           r_config)],
                   fileContents |->
                       [n \in 1..Len(texts) |->
                           [fp |-> join(r_config.scanDir, RunPaths[n]),
                            content |-> IF n <= 2 THEN contents[n] ELSE <<>>]],
                   totalFiles |-> Len(texts)]
    /\ r_disk \in {[f \in {ReportJson, DashboardHtml} |-> was] :
                      was \in {Absent, <<"old">>}}
    /\ r_result = NoReport

\* run writes the report and the dashboard, and returns them.
RunWrites ==
    /\ r_pc = "init"
    /\ r_scanned # Null
    /\ ~r_options.dryRun
    /\ r_result' = runResult(r_scanned, r_config)
    /\ r_disk' = [r_disk EXCEPT ![ReportJson] = <<"report", r_result'.report>>,
                                ![DashboardHtml] = r_result'.dashboardHtml]
    /\ r_pc' = "returned"
    /\ UNCHANGED <<r_options, r_config, r_scanned>>
    /\ UNCHANGED notRunVars

\* run with dryRun returns them and writes nothing (line 182).
RunDry ==
    /\ r_pc = "init"
    /\ r_scanned # Null
    /\ r_options.dryRun
    /\ r_result' = runResult(r_scanned, r_config)
    /\ r_pc' = "returned"
    /\ UNCHANGED <<r_options, r_config, r_scanned, r_disk>>
    /\ UNCHANGED notRunVars

\* scan rejects (the directory to scan cannot be read), and run with it.
RunRejects ==
    /\ r_pc = "init"
    /\ r_scanned = Null
    /\ r_pc' = "rejected"
    /\ UNCHANGED <<r_options, r_config, r_scanned, r_disk, r_result>>
    /\ UNCHANGED notRunVars

(* buildCategorySummary on the reports of a scan (SpecCategory) *)

\* The configuration the files were scanned with.
CategoryConfig ==
    [violations |->
         <<[key |-> "colors", enabled |-> TRUE, pattern |-> Pattern({"a"}),
            deduplicateByLine |-> FALSE],
           [key |-> "typography", enabled |-> TRUE, pattern |-> Pattern({"b"}),
            deduplicateByLine |-> FALSE]>>,
     flags |-> [migrateSimple |-> Pattern({}), migrateComplex |-> Pattern({}),
                todo |-> Pattern({"@"})]]

\* The path of the n-th file scanned.
CategoryPath(n) ==
    <<"src", "/",
      <<"a", "b", "c", "d", "e", "f", "g", "h", "i", "j", "k", "l", "m", "n",
        "o", "p", "q", "r", "s", "t", "u", "v", "w", "x", "y", "z">>[n],
      ".tsx">>

\* A text with so many colours and fonts.
CategoryText(colors, fonts) ==
    [x \in 1..colors |-> "a"] \o [x \in 1..fonts |-> "b"]

\* The colours of the n-th of the files: one in each file, one to three in
\* turn, or none to two in turn from the last file back; five in the file
\* singled out.
CategoryShapes == {"flat", "rising", "falling"}
CategoryColors(shape, n, files, heavy) ==
    IF n = heavy THEN 5
    ELSE CASE shape = "flat"    -> 1
           [] shape = "rising"  -> 1 + (n % 3)
           [] shape = "falling" -> (files - n) % 3

CategoryIdle ==
    /\ b_pc = "idle" /\ b_files = <<>> /\ b_key = "" /\ b_summary = NoReport

\* files is what scan returns: one FileReport for each file.
CategoryInit ==
    /\ b_pc = "init"
    /\ b_key \in {"colors", "typography", "spacing"}
    /\ \E files \in 0..MaxCategoryFiles, shape \in CategoryShapes :
          \E heavy \in 0..files :
             b_files =
                 [n \in 1..files |->
                     scanFileContent(
                         CategoryText(CategoryColors(shape, n, files, heavy), n % 2),
                         CategoryPath(n), CategoryConfig)]
    /\ b_summary = NoReport

BuildCategorySummary ==
    /\ b_pc = "init"
    /\ b_summary' = buildCategorySummary(b_files, b_key)
    /\ b_pc' = "returned"
    /\ UNCHANGED <<b_files, b_key>>
    /\ UNCHANGED notCategoryVars

-----------------------------------------------------------------------------
(* Specifications *)

vars == <<fileVars, dedupVars, scanVars, migVars, compVars, detectVars,
    roadmapVars, componentsVars, mergeVars, initVars, runVars, categoryVars>>

InitScanFile == ScanFileInit /\ DedupIdle /\ ScanIdle /\ MigIdle /\
    CompIdle /\ DetectIdle /\ RoadmapIdle /\ ComponentsIdle /\ MergeIdle /\
    InitIdle /\ RunIdle /\ CategoryIdle
NextScanFile == ScanFileReturns \/ ScanFileThrows
SpecScanFile == InitScanFile /\ [][NextScanFile]_vars

InitDedup == DedupInit /\ FileIdle /\ ScanIdle /\ MigIdle /\ CompIdle /\
    DetectIdle /\ RoadmapIdle /\ ComponentsIdle /\ MergeIdle /\ InitIdle /\
    RunIdle /\ CategoryIdle
NextDedup == ApplyDedup
SpecDedup == InitDedup /\ [][NextDedup]_vars

Init == ScanInit /\ FileIdle /\ DedupIdle /\ MigIdle /\ CompIdle /\
    DetectIdle /\ RoadmapIdle /\ ComponentsIdle /\ MergeIdle /\ InitIdle /\
    RunIdle /\ CategoryIdle
Next ==
    \/ DiscoverFiles
    \/ DiscoverFails
    \/ ReadFileCompletes
    \/ ReadFileFails
    \/ AllReadsJoined
    \/ ScanNextFile
    \/ ScanNextFileThrows
    \/ ScanReturns
Spec == Init /\ [][Next]_vars

InitMigration == MigInit /\ FileIdle /\ DedupIdle /\ ScanIdle /\ CompIdle /\
    DetectIdle /\ RoadmapIdle /\ ComponentsIdle /\ MergeIdle /\ InitIdle /\
    RunIdle /\ CategoryIdle
NextMigration ==
    \/ AnalyzeMigration
    \/ AnalyzeMigrationNoMappings
    \/ AnalyzeMigrationDisabled
SpecMigration == InitMigration /\ [][NextMigration]_vars

InitComponent == CompInit /\ FileIdle /\ DedupIdle /\ ScanIdle /\ MigIdle /\
    DetectIdle /\ RoadmapIdle /\ ComponentsIdle /\ MergeIdle /\ InitIdle /\
    RunIdle /\ CategoryIdle
NextComponent == AnalyzeComponentReturns \/ AnalyzeComponentSkips
SpecComponent == InitComponent /\ [][NextComponent]_vars

InitDetect == DetectInit /\ FileIdle /\ DedupIdle /\ ScanIdle /\ MigIdle /\
    CompIdle /\ RoadmapIdle /\ ComponentsIdle /\ MergeIdle /\ InitIdle /\
    RunIdle /\ CategoryIdle
NextDetect == DetectReturnsFound \/ DetectDiscards
SpecDetect == InitDetect /\ [][NextDetect]_vars

InitRoadmap == RoadmapInit /\ FileIdle /\ DedupIdle /\ ScanIdle /\ MigIdle /\
    CompIdle /\ DetectIdle /\ ComponentsIdle /\ MergeIdle /\ InitIdle /\
    RunIdle /\ CategoryIdle
NextRoadmap == BuildRoadmap \/ BuildRoadmapDisabled
SpecRoadmap == InitRoadmap /\ [][NextRoadmap]_vars

InitComponents == ComponentsInit /\ FileIdle /\ DedupIdle /\ ScanIdle /\
    MigIdle /\ CompIdle /\ DetectIdle /\ RoadmapIdle /\ MergeIdle /\
    InitIdle /\ RunIdle /\ CategoryIdle
NextComponents == AnalyzeComponents \/ AnalyzeComponentsDisabled
SpecComponents == InitComponents /\ [][NextComponents]_vars

InitMerge == MergeInit /\ FileIdle /\ DedupIdle /\ ScanIdle /\ MigIdle /\
    CompIdle /\ DetectIdle /\ RoadmapIdle /\ ComponentsIdle /\ InitIdle /\
    RunIdle /\ CategoryIdle
NextMerge == DeepMerge
SpecMerge == InitMerge /\ [][NextMerge]_vars

InitInitialize == InitInit /\ FileIdle /\ DedupIdle /\ ScanIdle /\ MigIdle /\
    CompIdle /\ DetectIdle /\ RoadmapIdle /\ ComponentsIdle /\ MergeIdle /\
    RunIdle /\ CategoryIdle
NextInitialize == InitGenerates \/ InitRunsWizard \/ InitThrows
SpecInit == InitInitialize /\ [][NextInitialize]_vars

InitRun == RunInit /\ FileIdle /\ DedupIdle /\ ScanIdle /\ MigIdle /\
    CompIdle /\ DetectIdle /\ RoadmapIdle /\ ComponentsIdle /\ MergeIdle /\
    InitIdle /\ CategoryIdle
NextRun == RunWrites \/ RunDry \/ RunRejects
SpecRun == InitRun /\ [][NextRun]_vars

InitCategory == CategoryInit /\ FileIdle /\ DedupIdle /\ ScanIdle /\
    MigIdle /\ CompIdle /\ DetectIdle /\ RoadmapIdle /\ ComponentsIdle /\
    MergeIdle /\ InitIdle /\ RunIdle
NextCategory == BuildCategorySummary
SpecCategory == InitCategory /\ [][NextCategory]_vars

-----------------------------------------------------------------------------
(* Properties of scanFileContent (SpecScanFile) *)

\* Sum of the lengths of the lists of a violations map.
SumOfLengths(violations) ==
    SumOver(DOMAIN violations, [k \in DOMAIN violations |-> Len(violations[k])])

Returned == f_pc = "returned"
FileLines == split(f_content)

\* Positions (1-based) of a line that a character class matches.
MatchPositions(line, cls) == {j \in 1..Len(line) : line[j] \in cls}

\* C1: the FileReport's totalViolations is the sum of the lengths of the lists
\* of its violations map (after deduplication); the flag lists are not counted.
C1_TotalIsSumOfLengths ==
    Returned => f_report.totalViolations = SumOfLengths(f_report.violations)

\* C1 witness: a report with flags, with violations, and with a deduplicated
\* rule whose merged list is shorter than its matches.
C1_Witness ==
    /\ Returned
    /\ f_report.totalFlags > 0
    /\ f_report.totalViolations > 0
    /\ \E k \in DOMAIN f_report.violations :
          /\ RuleOf(f_config, k).deduplicateByLine
          /\ Len(f_report.violations[k])
               < Len(findViolations(f_content, RuleOf(f_config, k).pattern, FALSE))

\* C4: no violation of an ordinary rule lies on a line whose trimmed content
\* begins with //, /* or *, while each flag list holds every match of its
\* pattern on every line, comment lines included.
C4_CommentLinesOnlyFlags ==
    Returned =>
        /\ \A k \in DOMAIN f_report.violations :
              \A n \in 1..Len(f_report.violations[k]) :
                 ~isCommentLine(FileLines[f_report.violations[k][n].line])
        /\ \A fl \in FlagNames :
              \A i \in 1..Len(FileLines) :
                 \A j \in MatchPositions(FileLines[i], f_config.flags[fl].cls) :
                    \E n \in 1..Len(f_report.flags[fl]) :
                       /\ f_report.flags[fl][n].line = i
                       /\ f_report.flags[fl][n].column = j

\* C4 witness: a comment line that an enabled rule's pattern matches and on
\* which a flag was recorded.
C4_Witness ==
    /\ Returned
    /\ \E i \in 1..Len(FileLines) :
          /\ isCommentLine(FileLines[i])
          /\ \E k \in DOMAIN f_report.violations :
                MatchPositions(FileLines[i], RuleOf(f_config, k).pattern.cls) # {}
          /\ \E fl \in FlagNames : \E n \in 1..Len(f_report.flags[fl]) :
                f_report.flags[fl][n].line = i

\* The matched substrings at the positions P of a line, left to right, joined
\* with ", ".
RECURSIVE JoinedMatches(_, _)
JoinedMatches(line, P) ==
    LET j == CHOOSE x \in P : \A y \in P : x <= y
    IN  IF P = {j} THEN <<line[j]>>
        ELSE <<line[j]>> \o <<",", " ">> \o JoinedMatches(line, P \ {j})

\* Lines (1-based) on which findViolations finds a match of the rule.
MatchedLines(cls) ==
    {i \in 1..Len(FileLines) :
        ~isCommentLine(FileLines[i]) /\ MatchPositions(FileLines[i], cls) # {}}

\* C9: for a rule with deduplicateByLine, the list has exactly one Violation
\* per line with a match, whose match joins the line's matched substrings left
\* to right with ", " and whose column is the first match's; the line numbers
\* are strictly ascending.
C9_DedupOnePerLine ==
    Returned =>
        \A k \in DOMAIN f_report.violations :
            RuleOf(f_config, k).deduplicateByLine =>
                LET vs  == f_report.violations[k]
                    cls == RuleOf(f_config, k).pattern.cls
                IN  /\ {vs[n].line : n \in 1..Len(vs)} = MatchedLines(cls)
                    /\ \A n \in 1..(Len(vs) - 1) : vs[n].line < vs[n+1].line
                    /\ \A n \in 1..Len(vs) :
                         LET P == MatchPositions(FileLines[vs[n].line], cls)
                         IN  /\ vs[n].match = JoinedMatches(FileLines[vs[n].line], P)
                             /\ vs[n].column = CHOOSE x \in P : \A y \in P : x <= y

\* C9 witness: a deduplicated list of two lines, one of which merges two
\* different matched substrings.
C9_Witness ==
    /\ Returned
    /\ \E k \in DOMAIN f_report.violations :
          /\ RuleOf(f_config, k).deduplicateByLine
          /\ Len(f_report.violations[k]) = 2
          /\ \E n \in 1..2 :
                f_report.violations[k][n].match = <<"a", ",", " ", "b">>

-----------------------------------------------------------------------------
(* Properties of deduplicateByLine (SpecDedup) *)

\* C8: applying deduplicateByLine to an already deduplicated list returns the
\* same list, field by field.
C8_DedupIdempotent ==
    d_runs >= 2 => d_list = d_prev

\* C8 witness: a second application, on a list whose first deduplication both
\* merged two violations and reordered lines.
C8_Witness ==
    /\ d_runs = 2
    /\ Len(d_list) = 2
    /\ Len(d_input) = 3
    /\ d_input[1].line > d_input[2].line

-----------------------------------------------------------------------------
(* Properties of scan (Spec) *)

ScanEnded == s_pc \in {"resolved", "rejected"}

HasInvalidEnabledRule ==
    \E i \in 1..Len(s_config.violations) :
        s_config.violations[i].enabled /\ ~s_config.violations[i].pattern.ok

AllDiscoveredReadable ==
    \A fp \in DOMAIN s_reads : s_disk[relative(s_config.scanDir, fp)].readable

ReportedPaths == {s_fileReports[n].path : n \in 1..Len(s_fileReports)}
DiscoveredPaths ==
    {relative(s_config.scanDir, s_filePaths[n]) : n \in 1..Len(s_filePaths)}

\* C5: with an enabled rule whose pattern does not compile (and a scan root
\* and files that can be read), scan completes successfully with a FileReport
\* for each discovered file, the other enabled rules applied.
C5_InvalidPatternSkipped ==
    (ScanEnded /\ s_root = "dir" /\ AllDiscoveredReadable /\ HasInvalidEnabledRule)
        => /\ s_pc = "resolved"
           /\ ReportedPaths = DiscoveredPaths
           /\ \A n \in 1..Len(s_fileReports) :
                 \A k \in EnabledKeys(s_config) :
                    RuleOf(s_config, k).pattern.ok
                        => k \in DOMAIN s_fileReports[n].violations

\* C6: when the scan root does not exist or is not a directory, scan rejects
\* with an error whose message says the directory does not exist; it never
\* resolves.
C6_DirectoryNotFound ==
    (s_root # "dir" /\ s_pc # "start")
        => /\ s_pc = "rejected"
           /\ includesWords(s_error.message, <<"does", "not", "exist">>)

\* C7: once a read has failed, scan has rejected with the read's error; a
\* scan that resolves holds a FileReport for every discovered file.
C7_ReadFailureIsFatal ==
    /\ (\E fp \in DOMAIN s_reads : s_reads[fp] = "rejected")
          => (s_pc = "rejected" /\ s_error = ErrReadFile)
    /\ s_pc = "resolved"
          => /\ ReportedPaths = DiscoveredPaths
             /\ Len(s_fileReports) = Len(s_filePaths)

\* C7 witness: scan has rejected although another file was read.
C7_Witness ==
    /\ s_pc = "rejected"
    /\ \E fp \in DOMAIN s_reads : s_reads[fp] = "rejected"
    /\ \E fp \in DOMAIN s_reads : s_reads[fp] = "fulfilled"
    /\ s_fileContents # <<>>

\* The FileReports made for the discovered file fp.
ReportsOfPath(fp) ==
    {n \in 1..Len(s_fileReports) :
        s_fileReports[n].path = relative(s_config.scanDir, fp)}

\* C26: scan issues the reads of all discovered files together; a file's
\* content is scanned only once the read of every discovered file has
\* completed; a scan that resolves holds exactly one FileReport per
\* discovered file.
C26_ScanAfterAllReads ==
    /\ DOMAIN s_reads = SeqToSet(s_filePaths)
    /\ (s_fileReports # <<>> \/ s_pc \in {"scanning", "resolved"})
          => /\ \A fp \in DOMAIN s_reads : s_reads[fp] = "fulfilled"
             /\ Len(s_fileContents) = Len(s_filePaths)
    /\ s_pc = "resolved"
          => /\ Len(s_fileReports) = Len(s_filePaths)
             /\ \A fp \in SeqToSet(s_filePaths) :
                    Cardinality(ReportsOfPath(fp)) = 1

\* C26 witness: scan has resolved with the reports of several files, all of
\* which were being read at once.
C26_Witness ==
    /\ s_pc = "resolved"
    /\ Len(s_filePaths) = NFiles
    /\ Len(s_fileReports) = NFiles
    /\ \A fp \in DOMAIN s_reads : s_reads[fp] = "fulfilled"

\* The FileReports of the discovered files in discovery order: what scan
\* returns when the reads complete in the order they were started.
ReportsInDiscoveryOrder ==
    [n \in 1..Len(s_filePaths) |->
        scanFileContent(s_disk[relative(s_config.scanDir, s_filePaths[n])].text,
                        relative(s_config.scanDir, s_filePaths[n]),
                        s_config)]

\* C29: the fileReports of a scan that resolves are the same for every
\* interleaving of the read completions, that is, the ones of the
\* interleaving that completes the reads in discovery order.
C29_ResultIndependentOfReadOrder ==
    s_pc = "resolved" => s_fileReports = ReportsInDiscoveryOrder

\* The same reports are returned under every interleaving, in some order.
C29_SameReportsInSomeOrder ==
    s_pc = "resolved"
        => /\ Len(s_fileReports) = Len(s_filePaths)
           /\ SeqToSet(s_fileReports) = SeqToSet(ReportsInDiscoveryOrder)

-----------------------------------------------------------------------------
(* Properties of analyzeMigration (SpecMigration) *)

MigrationReported ==
    /\ m_pc = "returned"
    /\ m_config.migration.enabled
    /\ Len(m_config.migration.mappings) > 0

\* Import lines plus usage lines of a component report, summed over its files.
OccurrencesIn(comp) ==
    SumOver(1..Len(comp.files),
            [x \in 1..Len(comp.files) |->
                Len(comp.files[x].importLines) + Len(comp.files[x].usageLines)])

\* C2: a mapping is migrated if and only if its totalUsages, the import lines
\* plus usage lines summed over all files, is 0.
C2_MigratedIffNoUsages ==
    MigrationReported =>
        \A n \in 1..Len(m_report.components) :
            LET comp == m_report.components[n]
            IN  /\ comp.totalUsages = OccurrencesIn(comp)
                /\ comp.migrated <=> (OccurrencesIn(comp) = 0)

\* C2 witness: a report with a migrated mapping and with a pending mapping
\* that is used but not imported in any file.
C2_Witness ==
    /\ MigrationReported
    /\ \E n \in 1..Len(m_report.components) : m_report.components[n].migrated
    /\ \E n \in 1..Len(m_report.components) :
          LET comp == m_report.components[n]
          IN  /\ ~comp.migrated
              /\ comp.totalUsages > 0
              /\ \A x \in 1..Len(comp.files) : comp.files[x].importLines = <<>>

\* C10: in components every pending mapping precedes every migrated one;
\* pending mappings are in ascending order of complexity tier, and those of
\* one tier in descending order of totalUsages.
C10_ComponentsOrder ==
    MigrationReported =>
        \A i, j \in 1..Len(m_report.components) :
            i < j =>
                LET a == m_report.components[i]
                    b == m_report.components[j]
                IN  /\ ~(a.migrated /\ ~b.migrated)
                    /\ (~a.migrated /\ ~b.migrated) =>
                          /\ complexityIndex(a.complexity) <= complexityIndex(b.complexity)
                          /\ a.complexity = b.complexity
                                => a.totalUsages >= b.totalUsages

\* C10 witness: a migrated mapping configured first is reported last, after
\* two pending mappings of one tier with different usages whose order differs
\* from the configured one.
C10_Witness ==
    /\ MigrationReported
    /\ m_report.components[3].migrated
    /\ m_report.components[3].source = m_config.migration.mappings[1].source
    /\ ~m_report.components[1].migrated
    /\ ~m_report.components[2].migrated
    /\ m_report.components[1].complexity = m_report.components[2].complexity
    /\ m_report.components[1].totalUsages > m_report.components[2].totalUsages
    /\ m_report.components[1].source = m_config.migration.mappings[3].source

-----------------------------------------------------------------------------
(* Properties of analyzeComponent (SpecComponent) *)

\* C3: whatever the seven scoring weights are, negative ones and ones that
\* sum to far more or far less than 100 included, the complianceScore of an
\* analyzed component lies in 0..100.
C3_ScoreWithinRange ==
    c_pc = "returned" =>
        /\ c_report.complianceScore >= 0
        /\ c_report.complianceScore <= 100

\* The seven conditions of the score, of the component reported, each with
\* the name of its weight.
ScoreConditions ==
    [usesCVA |-> c_report.usesCVA,
     correctNaming |->
         \A n \in 1..Len(c_report.variantProps) :
             \A k \in 1..Len(c_config.api.forbiddenProps) :
                 c_report.variantProps[n] # c_config.api.forbiddenProps[k],
     correctSizes |->
         \A n \in 1..Len(c_report.sizeValues) :
             \A k \in 1..Len(c_config.api.forbiddenSizes) :
                 c_report.sizeValues[n] # c_config.api.forbiddenSizes[k],
     hasClassName |-> c_report.hasClassName,
     usesCompoundVariants |-> c_report.usesCompoundVariants \/ ~c_report.usesCVA,
     hasAsChild |-> c_report.hasAsChild \/ ~c_report.usesRadix,
     usesRadix |-> c_report.usesRadix
                   \/ ~startsWith(c_report.path, c_config.primaryDirectory)]

\* The sum of the weights of the conditions that hold.
WeightsOfConditionsHeld ==
    LET held == {name \in DOMAIN ScoreConditions : ScoreConditions[name]}
    IN  SumOver(held, [name \in held |-> c_config.scoring[name]])

\* C25: before clamping, the compliance score of a component is the sum of
\* the configured weights of the conditions that hold among the seven, and
\* nothing else: the complianceScore reported is that sum, or 100 when the
\* sum is larger.
C25_ScoreIsSumOfWeightsHeld ==
    c_pc = "returned" =>
        c_report.complianceScore =
            (IF WeightsOfConditionsHeld > 100 THEN 100 ELSE WeightsOfConditionsHeld)

\* C25 witness: under weights that tell the conditions apart, a component
\* of the primary directory without CVA and with the slot library but no
\* asChild scores the weights of four conditions.
C25_Witness ==
    /\ c_pc = "returned"
    /\ c_config.scoring = Scoring(1, 2, 4, 8, 16, 32, 64)
    /\ ~c_report.usesCVA /\ ~c_report.usesCompoundVariants
    /\ c_report.usesRadix /\ ~c_report.hasAsChild
    /\ ~c_report.hasClassName
    /\ startsWith(c_report.path, c_config.primaryDirectory)
    /\ c_report.complianceScore = 2 + 4 + 16 + 64

-----------------------------------------------------------------------------
(* Properties of detectComponentUsage (SpecDetect) *)

\* The name starts with an uppercase letter.
StartsWithUppercaseLetter(name) == name.lead = "" /\ name.words[1].cap

\* The lines, not comments, that hold an opening or closing tag of the
\* component, under its name or, when that is another word than the name in
\* lower case, its kebab-case name.
TagLines(content, name) ==
    {n \in 1..Len(content) :
        /\ ~isCommentTokens(content[n])
        /\ \/ tagRegexTest(content[n], name)
           \/ /\ toKebabCase(name) # toLowerCase(name)
              /\ tagRegexTest(content[n], toKebabCase(name))}

\* The lines, not comments, where an import was detected.
ImportLines(content, name, pattern) ==
    {n \in 1..Len(content) :
        /\ ~isCommentTokens(content[n])
        /\ \/ importRegexTest(content[n], pattern)
           \/ namedImportRegexTest(content[n], name)}

\* C11: when no import was detected and tag-usage lines were found, the
\* usage lines are discarded unless the name starts with an uppercase letter;
\* for a native-element mapping they are never discarded.
C11_DiscardedUnlessUppercase ==
    u_pc = "returned" =>
        LET tags == TagLines(u_content, u_name)
            kept == SeqToSet(u_usage.usageLines)
        IN  /\ u_pattern = HTML_NATIVE_PATTERN => kept = tags
            /\ /\ u_pattern # HTML_NATIVE_PATTERN
               /\ ImportLines(u_content, u_name, u_pattern) = {}
               /\ tags # {}
               => IF StartsWithUppercaseLetter(u_name)
                  THEN kept = tags
                  ELSE kept = {} /\ u_usage.importLines = <<>>

\* C12: each line, not a comment, that matches an import of the component
\* counts once as an import line, and each other line, not a comment, that
\* holds a tag of the component counts once as a usage line (the usages
\* discarded for want of an import aside); their sum is what the file adds
\* to the mapping's totalUsages.
C12_EachLineCountsOnce ==
    /\ u_pc = "returned"
    /\ \/ u_pattern = HTML_NATIVE_PATTERN
       \/ ImportLines(u_content, u_name, u_pattern) # {}
       \/ startsUpperCase(u_name)
    => LET imports == IF u_pattern = HTML_NATIVE_PATTERN THEN {}
                      ELSE ImportLines(u_content, u_name, u_pattern)
           usages == TagLines(u_content, u_name) \ imports
       IN  /\ Len(u_usage.importLines) = Cardinality(imports)
           /\ Len(u_usage.usageLines) = Cardinality(usages)

-----------------------------------------------------------------------------
(* Properties of buildRoadmap (SpecRoadmap) *)

RoadmapBuilt == p_pc = "returned" /\ p_config.roadmap.enabled

\* The FileReports a phase filter selects.
MatchedBy(filter) ==
    {x \in 1..Len(p_fileReports) : filterMatches(filter, p_fileReports[x], p_config)}

\* The n-th phase of the roadmap returned is built from this configured phase.
ConfiguredPhase(n) ==
    CHOOSE k \in 1..Len(p_config.roadmap.phases) :
        p_config.roadmap.phases[k].id = p_roadmap.phases[n].id

\* C14: the phases emitted are the configured phases whose filter matches at
\* least one FileReport, in the configured order; no phase is emitted empty.
C14_PhasesInOrderWhenMatched ==
    RoadmapBuilt =>
        LET matches(ph) == MatchedBy(ph.filter) # {}
            expected == SelectSeq(p_config.roadmap.phases, matches)
        IN  /\ Len(p_roadmap.phases) = Len(expected)
            /\ \A n \in 1..Len(expected) :
                  /\ p_roadmap.phases[n].id = expected[n].id
                  /\ p_roadmap.phases[n].filesCount > 0

\* C14 witness: some configured phases are emitted and some are left out.
C14_Witness ==
    /\ RoadmapBuilt
    /\ Len(p_roadmap.phases) >= 2
    /\ Len(p_roadmap.phases) < Len(p_config.roadmap.phases)
    /\ p_roadmap.phases[1].id # p_config.roadmap.phases[1].id

\* The files whose total violation count lies in lo..quickWinThreshold.
FilesWithTotalFrom(lo) ==
    {x \in 1..Len(p_fileReports) :
        /\ p_fileReports[x].totalViolations >= lo
        /\ p_fileReports[x].totalViolations <= p_config.roadmap.quickWinThreshold}

\* The quickWins list and the quickWins phase select exactly these files.
QuickWinsAre(selected) ==
    LET paths == {p_fileReports[x].path : x \in selected}
        quickPhases ==
            {n \in 1..Len(p_roadmap.phases) :
                p_config.roadmap.phases[ConfiguredPhase(n)].filter.type = "quickWins"}
    IN  /\ Len(p_roadmap.quickWins) = Cardinality(selected)
        /\ {p_roadmap.quickWins[n].path : n \in 1..Len(p_roadmap.quickWins)} = paths
        /\ selected # {} => quickPhases # {}
        /\ \A n \in quickPhases :
              /\ p_roadmap.phases[n].filesCount = Cardinality(selected)
              /\ \A x \in 1..Len(p_roadmap.phases[n].files) :
                    p_roadmap.phases[n].files[x].path \in paths

\* C15: a file is a quick win, for the quickWins phase filter and for the
\* quickWins list, exactly when its total violation count is at least 1 and
\* at most config.roadmap.quickWinThreshold.
C15_QuickWinsWithinThreshold == RoadmapBuilt => QuickWinsAre(FilesWithTotalFrom(1))

\* C15 as stated: exactly when the count is at or below the threshold.
C15_QuickWinsAtOrBelowThreshold == RoadmapBuilt => QuickWinsAre(FilesWithTotalFrom(0))

\* C15 witness: a file at the threshold is a quick win, and there are a file
\* above the threshold and a file without violations.
C15_Witness ==
    /\ RoadmapBuilt
    /\ \E x \in 1..Len(p_fileReports) :
          /\ p_fileReports[x].totalViolations = p_config.roadmap.quickWinThreshold
          /\ \E n \in 1..Len(p_roadmap.quickWins) :
                p_roadmap.quickWins[n].path = p_fileReports[x].path
    /\ \E x \in 1..Len(p_fileReports) :
          p_fileReports[x].totalViolations > p_config.roadmap.quickWinThreshold
    /\ \E x \in 1..Len(p_fileReports) : p_fileReports[x].totalViolations = 0

\* C20: the files of a phase are in descending order of count and at most
\* maxFilesPerPhase; filesCount and violationsCount are the number of all the
\* matched files and the sum of their counts.
C20_FilesCappedCountsNot ==
    RoadmapBuilt =>
        \A n \in 1..Len(p_roadmap.phases) :
            LET phase == p_roadmap.phases[n]
                filter == p_config.roadmap.phases[ConfiguredPhase(n)].filter
                matched == MatchedBy(filter)
            IN  /\ \A x, y \in 1..Len(phase.files) :
                      x < y => phase.files[x].count >= phase.files[y].count
                /\ Len(phase.files) <= p_config.roadmap.maxFilesPerPhase
                /\ phase.filesCount = Cardinality(matched)
                /\ phase.violationsCount =
                      SumOver(matched,
                              [x \in matched |-> filterCount(filter, p_fileReports[x])])
                /\ \A x \in 1..Len(phase.files) :
                      \E y \in matched :
                          /\ phase.files[x].path = p_fileReports[y].path
                          /\ phase.files[x].count = filterCount(filter, p_fileReports[y])

\* C20 witness: a phase lists two files of different counts, in another
\* order than fileReports has them, and matched more files than it lists.
C20_Witness ==
    /\ RoadmapBuilt
    /\ \E n \in 1..Len(p_roadmap.phases) :
          LET phase == p_roadmap.phases[n]
          IN  /\ Len(phase.files) = 2
              /\ phase.filesCount = 3
              /\ phase.files[1].count > phase.files[2].count
              /\ phase.files[1].path = p_fileReports[3].path

\* The directory prefixes of a path that have at most three segments.
ShortPrefixes(path) ==
    {SubSeq(path, 1, i - 1) : i \in {j \in 1..Len(path) :
        /\ path[j] = "/"
        /\ Cardinality({x \in 1..(j - 1) : path[x] = "/"}) <= 2}}

\* The longest of them, or the empty path for a file at the root.
BucketKey(path) ==
    IF ShortPrefixes(path) = {} THEN <<>>
    ELSE CHOOSE q \in ShortPrefixes(path) :
             \A r \in ShortPrefixes(path) : Len(r) <= Len(q)

\* The FileReports of the bucket of a key.
Bucket(key) ==
    {n \in 1..Len(p_fileReports) : BucketKey(p_fileReports[n].path) = key}

BucketViolations(key) ==
    SumOver(Bucket(key), [n \in Bucket(key) |-> p_fileReports[n].totalViolations])

\* C21: every FileReport is counted in exactly one directory bucket, keyed by
\* the directory prefix of its path truncated to at most 3 segments; every
\* DirectorySummary emitted has totalViolations > 0, equal to the sum over
\* the files of its bucket, filesWithViolations <= totalFiles, and for each
\* enabled rule the sum of the bucket's violations of that rule; a bucket
\* with zero violations is not emitted.
C21_DirectoryBuckets ==
    RoadmapBuilt =>
        LET dirs == p_roadmap.directories
        IN  /\ \A k \in 1..Len(dirs) :
                  LET d == dirs[k]
                  IN  /\ d.totalViolations > 0
                      /\ d.totalViolations = BucketViolations(d.path)
                      /\ d.totalFiles = Cardinality(Bucket(d.path))
                      /\ d.filesWithViolations =
                            Cardinality({n \in Bucket(d.path) :
                                            p_fileReports[n].totalViolations > 0})
                      /\ d.filesWithViolations <= d.totalFiles
                      /\ DOMAIN d.categories = EnabledKeys(p_config)
                      /\ \A key \in EnabledKeys(p_config) :
                            d.categories[key] =
                                SumOver(Bucket(d.path),
                                        [n \in Bucket(d.path) |->
                                            Len(p_fileReports[n].violations[key])])
            /\ \A k, l \in 1..Len(dirs) : dirs[k].path = dirs[l].path => k = l
            /\ \A n \in 1..Len(p_fileReports) :
                  LET key == BucketKey(p_fileReports[n].path)
                  IN  (BucketViolations(key) > 0)
                          <=> \E k \in 1..Len(dirs) : dirs[k].path = key

\* C21 witness: two files of different directories four levels deep share
\* the emitted bucket src/ui/x, and the bucket of a third file, which has no
\* violation, is not emitted.
C21_Witness ==
    /\ RoadmapBuilt
    /\ Len(p_fileReports) = 3
    /\ \E k \in 1..Len(p_roadmap.directories) :
          /\ p_roadmap.directories[k].path = <<"src", "/", "ui", "/", "x">>
          /\ p_roadmap.directories[k].totalFiles = 2
          /\ p_roadmap.directories[k].filesWithViolations = 2
    /\ \A k \in 1..Len(p_roadmap.directories) :
          p_roadmap.directories[k].path # <<"src", "/", "ui">>

-----------------------------------------------------------------------------
(* Properties of the default scoring weights (SpecComponent) *)

\* The component of the report passes each of the seven checks.
PassesEveryCheck ==
    /\ c_report.usesCVA
    /\ SeqToSet(c_report.variantProps) \cap SeqToSet(c_config.api.forbiddenProps) = {}
    /\ SeqToSet(c_report.sizeValues) \cap SeqToSet(c_config.api.forbiddenSizes) = {}
    /\ c_report.hasClassName
    /\ c_report.usesCompoundVariants
    /\ c_report.hasAsChild
    /\ c_report.usesRadix

\* C17: with the default scoring the seven weights are 25, 25, 15, 10, 15, 5
\* and 5, and a component that passes every check has complianceScore 100.
C17_DefaultWeightsGive100 ==
    (c_pc = "returned" /\ c_config.scoring = DefaultScoring /\ PassesEveryCheck) =>
        /\ c_config.scoring = Scoring(25, 25, 15, 10, 15, 5, 5)
        /\ c_report.complianceScore = 100

-----------------------------------------------------------------------------
(* Properties of analyzeComponents (SpecComponents) *)

ComponentsAnalyzed == a_pc = "returned" /\ a_config.componentAnalysis.enabled

\* The n-th file of fileContents is under a configured component directory.
UnderComponentDir(n) ==
    \E d \in 1..Len(a_config.componentAnalysis.directories) :
        startsWith(a_fileContents[n].fp.rel, a_config.componentAnalysis.directories[d])

\* The configured directories that are a prefix of the path of the n-th file.
MatchingEntries(n) ==
    {d \in 1..Len(a_config.componentAnalysis.directories) :
        startsWith(a_fileContents[n].fp.rel, a_config.componentAnalysis.directories[d])}

\* The first of them in the order of the configuration.
FirstEntry(n) ==
    a_config.componentAnalysis.directories[
        CHOOSE d \in MatchingEntries(n) : \A e \in MatchingEntries(n) : d <= e]

\* The last path segment of a directory, its final "/" aside.
SegmentOf(dir) ==
    LET stripped == IF dir # <<>> /\ dir[Len(dir)] = "/"
                    THEN SubSeq(dir, 1, Len(dir) - 1) ELSE dir
        slashes == {i \in 1..Len(stripped) : stripped[i] = "/"}
        last == IF slashes = {} THEN 0
                ELSE CHOOSE i \in slashes : \A j \in slashes : j <= i
    IN  SubSeq(stripped, last + 1, Len(stripped))

\* The location the first matching entry gives: "primary" for the primary
\* directory, else its last segment, or "legacy" when that segment is empty.
LocationOfEntry(dir) ==
    IF dir = a_config.componentAnalysis.primaryDirectory THEN <<"primary">>
    ELSE IF SegmentOf(dir) = <<>> THEN <<"legacy">>
    ELSE SegmentOf(dir)

\* It is a .tsx file there that is no index/barrel or helper file, and the
\* location of its directory is not "other".
ComponentFile(n) ==
    /\ UnderComponentDir(n)
    /\ endsWith(a_fileContents[n].fp.rel, <<".tsx">>)
    /\ ~isBarrelOrHelper(a_fileContents[n].fp.rel)
    /\ LocationOfEntry(FirstEntry(n)) # <<"other">>

\* An export of a function, a const or a name is found in it.
ExportFound(n) ==
    \E x \in 1..Len(a_fileContents[n].content) :
        a_fileContents[n].content[x].t = "export"

ReportedAs(n, name) ==
    \E x \in 1..Len(a_result.components) :
        /\ a_result.components[x].path = a_fileContents[n].fp.rel
        /\ a_result.components[x].name = name

FileOfComponent(x) ==
    CHOOSE n \in 1..Len(a_fileContents) :
        a_fileContents[n].fp.rel = a_result.components[x].path

\* Each component reports one file that matches a configured directory, no
\* file twice, and no file that matches none; byLocation counts each
\* component under its location, so its values sum to totalComponents.
OneLocationEach ==
    LET components == a_result.components
        byLocation == a_result.summary.byLocation
    IN  /\ \A x \in 1..Len(components) :
              /\ \E n \in 1..Len(a_fileContents) :
                    a_fileContents[n].fp.rel = components[x].path
              /\ MatchingEntries(FileOfComponent(x)) # {}
        /\ \A x, y \in 1..Len(components) :
              components[x].path = components[y].path => x = y
        /\ DOMAIN byLocation = {components[x].location : x \in 1..Len(components)}
        /\ \A loc \in DOMAIN byLocation :
              byLocation[loc] = Cardinality({x \in 1..Len(components) :
                                                components[x].location = loc})
        /\ SumOver(DOMAIN byLocation, byLocation) = a_result.summary.totalComponents
        /\ a_result.summary.totalComponents = Len(components)

\* C23: each analyzed component has one location, given by the first entry
\* of componentAnalysis.directories, in the order of the configuration, that
\* is a prefix of its path: "primary" if the entry is the primary directory,
\* otherwise the last path segment of the entry, or "legacy" when that
\* segment is empty; a file matching no entry is not analyzed; the values of
\* summary.byLocation sum to summary.totalComponents.
C23_LocationOfFirstEntry ==
    ComponentsAnalyzed =>
        /\ OneLocationEach
        /\ \A x \in 1..Len(a_result.components) :
              a_result.components[x].location =
                  LocationOfEntry(FirstEntry(FileOfComponent(x)))

\* C23 as stated: the location of an entry that is not the primary directory
\* is its last path segment.
C23_LocationIsLastSegment ==
    ComponentsAnalyzed =>
        /\ OneLocationEach
        /\ \A x \in 1..Len(a_result.components) :
              LET dir == FirstEntry(FileOfComponent(x))
              IN  a_result.components[x].location =
                      IF dir = a_config.componentAnalysis.primaryDirectory
                      THEN <<"primary">> ELSE SegmentOf(dir)

\* C23 witness: a file under two configured directories, the primary one
\* second, is located by the first, and another file matches no directory.
C23_Witness ==
    /\ ComponentsAnalyzed
    /\ \E x \in 1..Len(a_result.components) :
          /\ Cardinality(MatchingEntries(FileOfComponent(x))) = 2
          /\ a_config.componentAnalysis.directories[2]
                 = a_config.componentAnalysis.primaryDirectory
          /\ a_result.components[x].location = <<"ui">>
    /\ \E n \in 1..Len(a_fileContents) : MatchingEntries(n) = {}

\* A component of the directory "" is located "legacy".
C23_WitnessLegacy ==
    /\ ComponentsAnalyzed
    /\ \E x \in 1..Len(a_result.components) :
          /\ FirstEntry(FileOfComponent(x)) = <<>>
          /\ a_result.components[x].location = <<"legacy">>

\* The FileReports given for the file of the x-th component.
ReportsOfComponent(x) ==
    {k \in 1..Len(a_fileReports) :
        a_fileReports[k].path = a_result.components[x].path}

\* The lines of that FileReport that have a violation of some rule.
ViolatingLines(fr) ==
    UNION {{fr.violations[key][v].line : v \in 1..Len(fr.violations[key])} :
           key \in DOMAIN fr.violations}

\* score is, in hundredths of a percent, the share clean of total rounded to
\* the nearest hundredth.
IsRoundedShare(score, clean, total) ==
    /\ 2 * (score * total - 10000 * clean) <= total
    /\ 2 * (10000 * clean - score * total) <= total

\* C24: the tokenCoverage of a component counts each line once however many
\* violations it has: violationLines is the number of distinct line numbers
\* over the violation lists of its FileReport, at most totalLines, and score
\* is the percentage (totalLines - violationLines) / totalLines, between 0
\* and 100; without a FileReport of its path, score is 100 and violationLines
\* and totalViolations are 0.
C24_TokenCoverageCountsLinesOnce ==
    ComponentsAnalyzed =>
        \A x \in 1..Len(a_result.components) :
            LET tc == a_result.components[x].tokenCoverage
                content == a_fileContents[FileOfComponent(x)].content
            IN  /\ tc.totalLines = (IF content = <<>> THEN 1 ELSE Len(content))
                /\ tc.score >= 0 /\ tc.score <= 10000
                /\ IF ReportsOfComponent(x) = {}
                   THEN /\ tc.score = 10000
                        /\ tc.violationLines = 0
                        /\ tc.totalViolations = 0
                   ELSE \A k \in ReportsOfComponent(x) :
                        /\ tc.violationLines =
                              Cardinality(ViolatingLines(a_fileReports[k]))
                        /\ tc.violationLines <= tc.totalLines
                        /\ tc.totalViolations = a_fileReports[k].totalViolations
                        /\ IsRoundedShare(tc.score,
                                          tc.totalLines - tc.violationLines,
                                          tc.totalLines)

\* C24 witness: a component of three lines with three violations on two
\* lines scores 33.33, next to a component without a FileReport.
C24_Witness ==
    /\ ComponentsAnalyzed
    /\ \E x, y \in 1..Len(a_result.components) :
          /\ a_result.components[x].tokenCoverage.totalLines = 3
          /\ a_result.components[x].tokenCoverage.totalViolations = 3
          /\ a_result.components[x].tokenCoverage.violationLines = 2
          /\ a_result.components[x].tokenCoverage.score = 3333
          /\ ReportsOfComponent(y) = {}
          /\ a_result.components[y].tokenCoverage.score = 10000

-----------------------------------------------------------------------------
(* Properties of deepMerge (SpecMerge) *)

BothObjects(t, s, key) ==
    /\ key \in DOMAIN t /\ key \in DOMAIN s
    /\ kindOf(t[key]) = "object" /\ kindOf(s[key]) = "object"

\* What the fields r of the result owe to the fields t of the target and s of
\* the source, for the keys that are not objects on both sides.
MergedFields(t, s, r) ==
    /\ DOMAIN r \subseteq DOMAIN t \cup DOMAIN s
    /\ \A key \in DOMAIN t \ DOMAIN s : key \in DOMAIN r /\ r[key] = t[key]
    /\ \A key \in DOMAIN s :
          /\ kindOf(s[key]) = "array" => key \in DOMAIN r /\ r[key] = s[key]
          /\ kindOf(s[key]) = "null" => key \in DOMAIN r /\ r[key] = s[key]
          /\ kindOf(s[key]) = "undefined" =>
                IF key \in DOMAIN t
                THEN key \in DOMAIN r /\ r[key] = t[key]
                ELSE key \notin DOMAIN r
          /\ (key \notin DOMAIN t /\ kindOf(s[key]) # "undefined") =>
                key \in DOMAIN r /\ r[key] = s[key]

\* C19: in the object deepMerge returns, a key that is a plain object on both
\* sides is merged in the same way, one level down; a source array replaces
\* the target's value; an undefined source value leaves the target's; a null
\* source value overrides it; a key of source alone is added.
C19_DeepMergeByKind ==
    g_pc = "returned" =>
        LET t == fieldsOf(g_target)
            s == fieldsOf(g_source)
            r == fieldsOf(g_result)
        IN  /\ kindOf(g_result) = "object"
            /\ MergedFields(t, s, r)
            /\ \A key \in DOMAIN s :
                  BothObjects(t, s, key) =>
                      /\ key \in DOMAIN r
                      /\ kindOf(r[key]) = "object"
                      /\ MergedFields(fieldsOf(t[key]), fieldsOf(s[key]),
                                      fieldsOf(r[key]))

\* C19 witness: key a is merged from two objects, one key kept from the
\* target and one added from the source, and the array of key b is replaced.
C19_Witness ==
    /\ g_pc = "returned"
    /\ BothObjects(fieldsOf(g_target), fieldsOf(g_source), "a")
    /\ fieldsOf(fieldsOf(g_target)["a"]) = [key \in {"c"} |-> NumV(1)]
    /\ fieldsOf(fieldsOf(g_source)["a"]) = [key \in {"d"} |-> NumV(2)]
    /\ fieldsOf(fieldsOf(g_result)["a"]) =
           [key \in {"c", "d"} |-> IF key = "c" THEN NumV(1) ELSE NumV(2)]
    /\ "b" \in DOMAIN fieldsOf(g_target) /\ "b" \in DOMAIN fieldsOf(g_source)
    /\ fieldsOf(g_target)["b"] = ArrV(<<1>>)
    /\ fieldsOf(g_source)["b"] = ArrV(<<2>>)
    /\ fieldsOf(g_result)["b"] = ArrV(<<2>>)

-----------------------------------------------------------------------------
(* Properties of init (SpecInit) *)

\* The file was there when init was called, and force is not set.
KeptByInit(file) == i_before[file] # Absent /\ ~i_options.force

CursorSelected ==
    LET targets == IF i_options.targets = UndefinedV THEN ALL_TARGETS
                   ELSE i_options.targets
    IN  \E n \in 1..Len(targets) : targets[n] = "cursor"

\* C18: a generated file that exists is left as it is and returned with
\* skipped = TRUE unless force is set; with dryRun no file of the project
\* changes, and the files that would be written are returned with
\* skipped = FALSE; the UI component rule file is among the files returned
\* exactly when componentAnalysis.enabled holds and cursor is a target.
C18_KeepsExistingAndDryRunWritesNothing ==
    i_pc = "returned" =>
        /\ \A n \in 1..Len(i_results) :
              KeptByInit(i_results[n].relativePath) =>
                  /\ i_results[n].skipped
                  /\ i_disk[i_results[n].relativePath] =
                         i_before[i_results[n].relativePath]
        /\ \A file \in GuidelineFiles :
              KeptByInit(file) => i_disk[file] = i_before[file]
        /\ i_options.dryRun =>
              /\ i_disk = i_before
              /\ \A n \in 1..Len(i_results) :
                    ~KeptByInit(i_results[n].relativePath) => ~i_results[n].skipped
        /\ (\E n \in 1..Len(i_results) :
                i_results[n].relativePath = ComponentRuleFile)
           <=> (componentAnalysisEnabled(i_config) /\ CursorSelected)

\* C18 witness: a dry run returns a file that exists as skipped, the UI
\* component rule file as a file that would be written, and writes nothing.
C18_Witness ==
    /\ i_pc = "returned"
    /\ i_options.dryRun /\ ~i_options.force
    /\ i_before[ComplianceRuleFile] # Absent
    /\ i_before[ComponentRuleFile] = Absent
    /\ i_disk[ComponentRuleFile] = Absent
    /\ \E n, k \in 1..Len(i_results) :
          /\ i_results[n].relativePath = ComplianceRuleFile
          /\ i_results[n].skipped
          /\ i_results[k].relativePath = ComponentRuleFile
          /\ ~i_results[k].skipped

-----------------------------------------------------------------------------
(* Properties of run (SpecRun) *)

RunReturned == r_pc = "returned"

\* Some scanned file has a line with the tag <Button>.
ButtonUsed ==
    \E n \in 1..Len(r_scanned.fileContents) :
       \E l \in 1..Len(r_scanned.fileContents[n].content) :
          \E k \in 1..Len(r_scanned.fileContents[n].content[l]) :
             r_scanned.fileContents[n].content[l][k] = Tag(Button)

\* C13: when migration.enabled is false, the migration of the report run
\* returns is null, whatever the mappings and the targetDS configured.
C13_MigrationNullWhenDisabled ==
    (RunReturned /\ ~r_config.migration.enabled) =>
        r_result.report.migration = Null

\* C13 witness: run returned with migration disabled, under a configuration
\* that has mappings and a targetDS, over files that use a mapped component.
C13_Witness ==
    /\ RunReturned
    /\ ~r_config.migration.enabled
    /\ Len(r_config.migration.mappings) > 0
    /\ r_config.migration.targetDS = "shadcn/ui"
    /\ ButtonUsed
    /\ r_result.report.migration = Null

-----------------------------------------------------------------------------
(* Properties of buildCategorySummary (SpecCategory) *)

CategoryBuilt == b_pc = "returned"

\* The violations of the key in the n-th file.
KeyCount(n) ==
    IF b_key \in DOMAIN b_files[n].violations
    THEN Len(b_files[n].violations[b_key]) ELSE 0

\* The files with at least one violation of the key.
FilesHit == {n \in 1..Len(b_files) : KeyCount(n) > 0}

\* The file a topFiles entry is of.
FileOfTop(x) ==
    CHOOSE n \in 1..Len(b_files) : b_files[n].path = b_summary.topFiles[x].path

\* C22: buildCategorySummary returns as totalFiles the number of files with
\* a violation of the key, as totalViolations the sum of their counts, and
\* as topFiles at most 20 of those files with their counts, sorted by count
\* descending, no file left out having a greater count than one included.
C22_CategorySummary ==
    CategoryBuilt =>
        LET top == b_summary.topFiles
            listed == {FileOfTop(x) : x \in 1..Len(top)}
        IN  /\ b_summary.totalFiles = Cardinality(FilesHit)
            /\ b_summary.totalViolations =
                  SumOver(FilesHit, [n \in FilesHit |-> KeyCount(n)])
            /\ Len(top) = Min(TopFilesMax, Cardinality(FilesHit))
            /\ \A x \in 1..Len(top) :
                  /\ \E n \in FilesHit : b_files[n].path = top[x].path
                  /\ top[x].count = KeyCount(FileOfTop(x))
            /\ \A x, y \in 1..Len(top) :
                  /\ x < y => top[x].count >= top[y].count
                  /\ top[x].path = top[y].path => x = y
            /\ \A n \in FilesHit \ listed :
                  \A x \in 1..Len(top) : KeyCount(n) <= top[x].count

\* C22 witness: more than 20 files have violations of the key, the file
\* with the most comes after the 20th and is listed first, and a file left
\* out has as many as the last one listed.
C22_Witness ==
    /\ CategoryBuilt
    /\ b_summary.totalFiles > TopFilesMax
    /\ Len(b_summary.topFiles) = TopFilesMax
    /\ FileOfTop(1) > TopFilesMax
    /\ b_summary.topFiles[1].count > b_summary.topFiles[2].count
    /\ \E n \in FilesHit :
          /\ \A x \in 1..TopFilesMax : FileOfTop(x) # n
          /\ KeyCount(n) = b_summary.topFiles[TopFilesMax].count

-----------------------------------------------------------------------------
(* Properties of the migration summary (SpecMigration) *)

\* The reported components still to migrate, those of a tier among them, and
\* the paths of the files that use one of a set of components.
PendingComponents ==
    {n \in 1..Len(m_report.components) : ~m_report.components[n].migrated}
PendingOfTier(tier) ==
    {n \in PendingComponents : m_report.components[n].complexity = tier}
FilesUsing(comps) ==
    UNION {{m_report.components[n].files[x].path :
               x \in 1..Len(m_report.components[n].files)} : n \in comps}

\* The counts of the summary: totalMappings = totalToMigrate + totalMigrated,
\* the tiers' counts sum to totalToMigrate and their usages to totalUsages,
\* and totalFilesAffected is the number of distinct files of the pending
\* mappings.
SummaryCountsAddUp ==
    LET summary == m_report.summary
        over(field) == SumOver(Tiers, [t \in Tiers |-> summary.byComplexity[t][field]])
    IN  /\ summary.totalMappings = Len(m_report.components)
        /\ summary.totalToMigrate = Cardinality(PendingComponents)
        /\ summary.totalMappings = summary.totalToMigrate + summary.totalMigrated
        /\ over("count") = summary.totalToMigrate
        /\ over("usages") = summary.totalUsages
        /\ summary.totalFilesAffected = Cardinality(FilesUsing(PendingComponents))

\* C30: the counts of the migration summary add up, and byComplexity[tier].files
\* is the number of distinct files used by the pending mappings of the tier,
\* so the tiers' files sum to totalFilesAffected at least and none exceeds it.
C30_TierFilesAreDistinctFiles ==
    MigrationReported =>
        LET summary == m_report.summary
        IN  /\ SummaryCountsAddUp
            /\ \A t \in Tiers :
                   /\ summary.byComplexity[t].files
                         = Cardinality(FilesUsing(PendingOfTier(t)))
                   /\ summary.byComplexity[t].files <= summary.totalFilesAffected
            /\ SumOver(Tiers, [t \in Tiers |-> summary.byComplexity[t].files])
                  >= summary.totalFilesAffected

\* What holds: the counts add up, and byComplexity[tier].files is the sum over
\* the pending mappings of the tier of the number of files each is used in,
\* which is the number of distinct files of the tier at least.
C30_TierFilesSumPerMapping ==
    MigrationReported =>
        LET summary == m_report.summary
        IN  /\ SummaryCountsAddUp
            /\ \A t \in Tiers :
                   /\ summary.byComplexity[t].files
                         = SumOver(PendingOfTier(t),
                                   [n \in PendingOfTier(t) |->
                                       Cardinality(FilesUsing({n}))])
                   /\ summary.byComplexity[t].files
                         >= Cardinality(FilesUsing(PendingOfTier(t)))
            /\ SumOver(Tiers, [t \in Tiers |-> summary.byComplexity[t].files])
                  >= summary.totalFilesAffected

-----------------------------------------------------------------------------
(* Properties of the usage lines of detectComponentUsage (SpecDetect) *)

\* The lines of the file that are not comments.
NonCommentLines == {n \in 1..Len(u_content) : ~isCommentTokens(u_content[n])}

\* C28: usageLines has each line number at most once and none that is in
\* importLines, so importLines and usageLines together are no more than the
\* lines of the file that are not comments.
C28_UsageLinesDistinct ==
    u_pc = "returned" =>
        /\ \A j, k \in 1..Len(u_usage.usageLines) :
               j # k => u_usage.usageLines[j] # u_usage.usageLines[k]
        /\ SeqToSet(u_usage.usageLines) \cap SeqToSet(u_usage.importLines) = {}
        /\ Len(u_usage.importLines) + Len(u_usage.usageLines)
              <= Cardinality(NonCommentLines)

\* What holds of them: usageLines and importLines are ascending line numbers
\* of lines that are not comments, share no line, and importLines has none
\* twice; a line is twice in usageLines at most.
C28_UsageLinesTwiceAtMost ==
    u_pc = "returned" =>
        /\ SeqToSet(u_usage.usageLines) \cap SeqToSet(u_usage.importLines) = {}
        /\ SeqToSet(u_usage.usageLines) \cup SeqToSet(u_usage.importLines)
              \subseteq NonCommentLines
        /\ \A j, k \in 1..Len(u_usage.importLines) :
               j < k => u_usage.importLines[j] < u_usage.importLines[k]
        /\ \A j, k \in 1..Len(u_usage.usageLines) :
               j < k => u_usage.usageLines[j] <= u_usage.usageLines[k]
        /\ \A n \in NonCommentLines :
               Cardinality({k \in 1..Len(u_usage.usageLines) :
                               u_usage.usageLines[k] = n}) <= 2

-----------------------------------------------------------------------------
(* Properties of the report's summary and file list (SpecRun) *)

\* The scanned files with no violation under any enabled rule, and those
\* with a violation or a flag, by their position in what scan returned.
CompliantFiles ==
    {n \in 1..Len(r_scanned.fileReports) :
        \A key \in DOMAIN r_scanned.fileReports[n].violations :
            r_scanned.fileReports[n].violations[key] = <<>>}
FlaggedFiles ==
    {n \in 1..Len(r_scanned.fileReports) :
        \E kind \in FlagNames : r_scanned.fileReports[n].flags[kind] # <<>>}
ViolatingOrFlagged ==
    (1..Len(r_scanned.fileReports) \ CompliantFiles) \cup FlaggedFiles

\* C27: coveragePercent is the share of the scanned files that have no
\* violation under any enabled rule, as a percentage between 0 and 100
\* rounded to hundredths, flags not counted, and 100 when no file was
\* scanned; report.files has each scanned file with a violation or a flag
\* once, and no other, by totalViolations descending.
C27_CoverageAndFiles ==
    RunReturned =>
        LET scannedFiles == r_scanned.fileReports
            summary == r_result.report.summary
            files == r_result.report.files
        IN  /\ summary.coveragePercent \in 0..10000
            /\ IF Len(scannedFiles) = 0
               THEN summary.coveragePercent = 10000
               ELSE IsRoundedShare(summary.coveragePercent,
                                   Cardinality(CompliantFiles), Len(scannedFiles))
            /\ Len(files) = Cardinality(ViolatingOrFlagged)
            /\ \A n \in ViolatingOrFlagged :
                   \E k \in 1..Len(files) : files[k] = scannedFiles[n]
            /\ \A k \in 1..Len(files) :
                   \E n \in ViolatingOrFlagged : files[k] = scannedFiles[n]
            /\ \A j, k \in 1..Len(files) :
                   j < k => files[j].totalViolations >= files[k].totalViolations

\* C27 witness: of three files scanned one has a flag and no violation and
\* two have violations, the one with fewer first: coverage is 33.33 and the
\* three are listed, the one with more violations first.
C27_Witness ==
    /\ RunReturned
    /\ Len(r_scanned.fileReports) = 3
    /\ Cardinality(CompliantFiles) = 1
    /\ CompliantFiles \subseteq FlaggedFiles
    /\ r_scanned.fileReports[1].totalViolations
          < r_scanned.fileReports[2].totalViolations
    /\ r_result.report.summary.coveragePercent = 3333
    /\ Len(r_result.report.files) = 3
    /\ r_result.report.files[1] = r_scanned.fileReports[2]

\* C27 witness: no file was scanned and coverage is 100.
C27_WitnessNoFiles ==
    /\ RunReturned
    /\ r_scanned.fileReports = <<>>
    /\ r_result.report.summary.coveragePercent = 10000

=============================================================================
